---- MODULE Spec2Model ----
(***************************************************************************)
(* Model of the GitHub CLI tool of src/adi/main.py: the commit-message     *)
(* generation cascade (generate_commit_message and the strategies it       *)
(* tries) and the authentication flow (authenticate and the steps it       *)
(* calls), driven by the command dispatcher main().                        *)
(*                                                                         *)
(* Python strings are TLA+ strings; Len, \o and SubSeq act on them as on   *)
(* sequences of characters.  An Optional[str] is a sequence of at most one *)
(* string: None is << >> and a returned string s is <<s>>.                 *)
(***************************************************************************)
EXTENDS Integers, Sequences, FiniteSets, TLC

(***************************************************************************)
(* String primitives used by the source (str methods and operators).       *)
(***************************************************************************)
Min(a, b) == IF a <= b THEN a ELSE b

CharAt(s, i) == SubSeq(s, i, i)

\* s[:n]
Take(s, n) == SubSeq(s, 1, Min(n, Len(s)))

\* s[n:]
Drop(s, n) == SubSeq(s, n + 1, Len(s))

\* s.startswith(p)
StartsWith(s, p) == Len(p) <= Len(s) /\ SubSeq(s, 1, Len(p)) = p

\* p in s
Contains(s, p) == \E i \in 1..(Len(s) - Len(p) + 1) : SubSeq(s, i, i + Len(p) - 1) = p

\* s.find(p) + 1, defined when p occurs in s
IndexOf(s, p) ==
    LET at == {i \in 1..(Len(s) - Len(p) + 1) : SubSeq(s, i, i + Len(p) - 1) = p}
    IN  CHOOSE i \in at : \A j \in at : i <= j

UpperAlphabet == "ABCDEFGHIJKLMNOPQRSTUVWXYZ"
LowerAlphabet == "abcdefghijklmnopqrstuvwxyz"

UpperChars == {CharAt(UpperAlphabet, i) : i \in 1..26}

LowerOf == [c \in UpperChars |->
              CharAt(LowerAlphabet, CHOOSE i \in 1..26 : CharAt(UpperAlphabet, i) = c)]

LowerChar(c) == IF c \in UpperChars THEN LowerOf[c] ELSE c

\* s.lower()
RECURSIVE Lower(_)
Lower(s) ==
    IF Len(s) = 0 THEN ""
    ELSE IF Len(s) = 1 THEN LowerChar(s)
    ELSE LET h == Len(s) \div 2
         IN  Lower(SubSeq(s, 1, h)) \o Lower(SubSeq(s, h + 1, Len(s)))

\* s.strip(chars): drop the leading and trailing characters that occur in chars
StripChars(s, chars) ==
    LET keep == {i \in 1..Len(s) : ~Contains(chars, CharAt(s, i))}
    IN  IF keep = {} THEN ""
        ELSE SubSeq(s, CHOOSE i \in keep : \A j \in keep : i <= j,
                       CHOOSE i \in keep : \A j \in keep : j <= i)

Whitespace == " \t\n\r"

\* s.strip()
Strip(s) == StripChars(s, Whitespace)

\* s.split('\n')
RECURSIVE Split(_)
Split(s) ==
    IF ~Contains(s, "\n") THEN <<s>>
    ELSE LET i == IndexOf(s, "\n")
         IN  <<SubSeq(s, 1, i - 1)>> \o Split(Drop(s, i))

\* s.replace(old, "")
RECURSIVE Remove(_, _)
Remove(s, old) ==
    IF old = "" \/ ~Contains(s, old) THEN s
    ELSE LET i == IndexOf(s, old)
         IN  SubSeq(s, 1, i - 1) \o Remove(Drop(s, i + Len(old) - 1), old)

\* Optional[str]
None == << >>
Some(s) == <<s>>

\* "if result:" on an Optional[str]
Truthy(r) == r # None /\ r[1] # ""

(***************************************************************************)
(* Program constants.                                                      *)
(***************************************************************************)
MaxMessageLen == 72

PromptDiffLen == 800

SimplePromptLen == 500

ValidTypes == <<"feat", "fix", "docs", "style", "refactor", "test", "chore">>

(***************************************************************************)
(* generate_fallback_message (main.py 519-577).                            *)
(***************************************************************************)
\* added_lines / removed_lines: lines 526-527
CountLines(lines, mark, header) ==
    Cardinality({i \in 1..Len(lines) :
                    StartsWith(lines[i], mark) /\ ~StartsWith(lines[i], header)})

\* the if/elif chain of the classification loop, for one lower-cased line
\* (lowered is git_diff.lower())
LineSignal(line, git_diff, lowered) ==
    IF (Contains(line, "def ") \/ Contains(line, "class ")) /\ StartsWith(line, "+")
    THEN "feat"
    ELSE IF Contains(line, "fix") \/ Contains(line, "bug") THEN "fix"
    ELSE IF Contains(line, "import") /\ StartsWith(line, "+") THEN "feat"
    ELSE IF Contains(line, "test") THEN "test"
    ELSE IF Contains(git_diff, ".md") \/ Contains(lowered, "readme") THEN "docs"
    ELSE IF Contains(lowered, "requirements") \/ Contains(lowered, "package")
    THEN "chore"
    ELSE "none"

ChangeTypes(git_diff) ==
    LET lowered    == Lower(git_diff)
        diff_lines == Split(lowered)
    IN  {LineSignal(diff_lines[i], git_diff, lowered) : i \in 1..Len(diff_lines)} \ {"none"}

\* the primary type with fixes ranked above features
CommitType_FixFirst(git_diff) ==
    LET change_types == ChangeTypes(git_diff)
    IN  IF "fix" \in change_types THEN "fix"
        ELSE IF "feat" \in change_types THEN "feat"
        ELSE IF "test" \in change_types THEN "test"
        ELSE IF "docs" \in change_types THEN "docs"
        ELSE "chore"

CommitType(git_diff) ==
    LET change_types == ChangeTypes(git_diff)
    IN  IF "feat" \in change_types THEN "feat"
        ELSE IF "fix" \in change_types THEN "fix"
        ELSE IF "test" \in change_types THEN "test"
        ELSE IF "docs" \in change_types THEN "docs"
        ELSE IF "chore" \in change_types THEN "chore"
        ELSE "chore"

\* generate_fallback_message testing the dependency manifest first
generate_fallback_message_RequirementsFirst(git_diff) ==
    LET lowered       == Lower(git_diff)
        diff_lines    == Split(lowered)
        added_lines   == CountLines(diff_lines, "+", "+++")
        removed_lines == CountLines(diff_lines, "-", "---")
        commit_type   == CommitType(git_diff)
    IN  IF Contains(lowered, "requirements")
        THEN "chore: update dependencies"
        ELSE IF Contains(lowered, "huggingface") \/ Contains(lowered, "hf")
        THEN "feat: add Hugging Face integration for auto-commit messages"
        ELSE IF Contains(lowered, "openai")
        THEN "feat: add AI-powered commit message generation"
        ELSE IF Contains(git_diff, "main.py") /\ added_lines > 50
        THEN "feat: implement major functionality updates"
        ELSE IF added_lines > removed_lines * 2
        THEN commit_type \o ": add new features and functionality"
        ELSE IF removed_lines > added_lines * 2
        THEN commit_type \o ": remove deprecated code"
        ELSE commit_type \o ": update and improve codebase"

\* generate_fallback_message comparing the counts without doubling
generate_fallback_message_NoDoubling(git_diff) ==
    LET lowered       == Lower(git_diff)
        diff_lines    == Split(lowered)
        added_lines   == CountLines(diff_lines, "+", "+++")
        removed_lines == CountLines(diff_lines, "-", "---")
        commit_type   == CommitType(git_diff)
    IN  IF Contains(lowered, "huggingface") \/ Contains(lowered, "hf")
        THEN "feat: add Hugging Face integration for auto-commit messages"
        ELSE IF Contains(lowered, "openai")
        THEN "feat: add AI-powered commit message generation"
        ELSE IF Contains(lowered, "requirements")
        THEN "chore: update dependencies"
        ELSE IF Contains(git_diff, "main.py") /\ added_lines > 50
        THEN "feat: implement major functionality updates"
        ELSE IF added_lines > removed_lines
        THEN commit_type \o ": add new features and functionality"
        ELSE IF removed_lines > added_lines
        THEN commit_type \o ": remove deprecated code"
        ELSE commit_type \o ": update and improve codebase"

\* generate_fallback_message building the message without the colon
generate_fallback_message_NoColon(git_diff) ==
    LET lowered       == Lower(git_diff)
        diff_lines    == Split(lowered)
        added_lines   == CountLines(diff_lines, "+", "+++")
        removed_lines == CountLines(diff_lines, "-", "---")
        commit_type   == CommitType(git_diff)
    IN  IF Contains(lowered, "huggingface") \/ Contains(lowered, "hf")
        THEN "feat: add Hugging Face integration for auto-commit messages"
        ELSE IF Contains(lowered, "openai")
        THEN "feat: add AI-powered commit message generation"
        ELSE IF Contains(lowered, "requirements")
        THEN "chore: update dependencies"
        ELSE IF Contains(git_diff, "main.py") /\ added_lines > 50
        THEN "feat: implement major functionality updates"
        ELSE IF added_lines > removed_lines * 2
        THEN commit_type \o ": add new features and functionality"
        ELSE IF removed_lines > added_lines * 2
        THEN commit_type \o " remove deprecated code"
        ELSE commit_type \o ": update and improve codebase"

generate_fallback_message(git_diff) ==
    LET lowered       == Lower(git_diff)
        diff_lines    == Split(lowered)
        added_lines   == CountLines(diff_lines, "+", "+++")
        removed_lines == CountLines(diff_lines, "-", "---")
        commit_type   == CommitType(git_diff)
    IN  IF Contains(lowered, "huggingface") \/ Contains(lowered, "hf")
        THEN "feat: add Hugging Face integration for auto-commit messages"
        ELSE IF Contains(lowered, "openai")
        THEN "feat: add AI-powered commit message generation"
        ELSE IF Contains(lowered, "requirements")
        THEN "chore: update dependencies"
        ELSE IF Contains(git_diff, "main.py") /\ added_lines > 50
        THEN "feat: implement major functionality updates"
        ELSE IF added_lines > removed_lines * 2
        THEN commit_type \o ": add new features and functionality"
        ELSE IF removed_lines > added_lines * 2
        THEN commit_type \o ": remove deprecated code"
        ELSE commit_type \o ": update and improve codebase"

(***************************************************************************)
(* try_simple_text_generation (main.py 457-482).                           *)
(***************************************************************************)
\* try_simple_text_generation testing the imports before the definitions
try_simple_text_generation_ImportFirst(prompt) ==
    LET diff_lower == Lower(prompt)
    IN  IF Contains(diff_lower, "+import")
        THEN Some("feat: add new imports and functionality")
        ELSE IF Contains(diff_lower, "+def ") \/ Contains(diff_lower, "+class ")
        THEN Some("feat: add new functionality")
        ELSE IF Contains(diff_lower, "requirements") \/ Contains(diff_lower, "package")
        THEN Some("chore: update dependencies")
        ELSE IF Contains(diff_lower, "fix") \/ Contains(diff_lower, "bug")
        THEN Some("fix: resolve issues")
        ELSE IF Contains(diff_lower, "test")
        THEN Some("test: add or update tests")
        ELSE IF Contains(diff_lower, ".md")
        THEN Some("docs: update documentation")
        ELSE Some("chore: update code")

\* try_simple_text_generation returning nothing when no pattern is found
try_simple_text_generation_NoDefault(prompt) ==
    LET diff_lower == Lower(prompt)
    IN  IF Contains(diff_lower, "+def ") \/ Contains(diff_lower, "+class ")
        THEN Some("feat: add new functionality")
        ELSE IF Contains(diff_lower, "requirements") \/ Contains(diff_lower, "package")
        THEN Some("chore: update dependencies")
        ELSE IF Contains(diff_lower, "+import")
        THEN Some("feat: add new imports and functionality")
        ELSE IF Contains(diff_lower, "fix") \/ Contains(diff_lower, "bug")
        THEN Some("fix: resolve issues")
        ELSE IF Contains(diff_lower, "test")
        THEN Some("test: add or update tests")
        ELSE IF Contains(diff_lower, ".md")
        THEN Some("docs: update documentation")
        ELSE None

try_simple_text_generation(prompt) ==
    LET diff_lower == Lower(prompt)
    IN  IF Contains(diff_lower, "+def ") \/ Contains(diff_lower, "+class ")
        THEN Some("feat: add new functionality")
        ELSE IF Contains(diff_lower, "requirements") \/ Contains(diff_lower, "package")
        THEN Some("chore: update dependencies")
        ELSE IF Contains(diff_lower, "+import")
        THEN Some("feat: add new imports and functionality")
        ELSE IF Contains(diff_lower, "fix") \/ Contains(diff_lower, "bug")
        THEN Some("fix: resolve issues")
        ELSE IF Contains(diff_lower, "test")
        THEN Some("test: add or update tests")
        ELSE IF Contains(diff_lower, ".md")
        THEN Some("docs: update documentation")
        ELSE Some("chore: update code")

(***************************************************************************)
(* extract_commit_message (main.py 484-517).                               *)
(***************************************************************************)
\* any(line.lower().startswith(t + ':') for t in [...]): line 498
StartsWithTypeColon(line) ==
    LET lowered == Lower(line)
    IN  \E i \in 1..Len(ValidTypes) : StartsWith(lowered, ValidTypes[i] \o ":")

\* line.lower().startswith((...)): line 510
StartsWithType(line) ==
    LET lowered == Lower(line)
    IN  \E i \in 1..Len(ValidTypes) : StartsWith(lowered, ValidTypes[i])

\* the body of the first loop for one stripped line: lines 493-503
FirstLoopHit(line) ==
    /\ line # ""
    /\ \/ StartsWithTypeColon(line)
       \/ Contains(line, ":") /\ Len(line) < 80 /\ ~StartsWith(line, "http")

\* the condition of the second loop: line 508
SecondLoopHit(line) ==
    Len(line) > 10 /\ Len(line) < 100 /\ ~StartsWith(line, "Generate")

extract_commit_message(generated_text, git_diff) ==
    LET text  == Strip(Remove(generated_text, Take(git_diff, SimplePromptLen)))
        lines == Split(text)
        hits1 == {i \in 1..Len(lines) : FirstLoopHit(Strip(lines[i]))}
        hits2 == {i \in 1..Len(lines) : SecondLoopHit(Strip(lines[i]))}
    IN  IF hits1 # {}
        THEN Some(Take(Strip(lines[CHOOSE i \in hits1 : \A j \in hits1 : i <= j]),
                       MaxMessageLen))
        ELSE IF hits2 # {}
        THEN LET line == Strip(lines[CHOOSE i \in hits2 : \A j \in hits2 : i <= j])
             IN  IF ~StartsWithType(line)
                 THEN Some(Take("feat: " \o Lower(line), MaxMessageLen))
                 ELSE Some(Take(line, MaxMessageLen))
        ELSE None

(***************************************************************************)
(* The cleaning of a local-model reply in generate_with_ollama             *)
(* (main.py 386-413).                                                      *)
(***************************************************************************)
Quotes == "\"'"

\* the condition under which the loop of lines 394-406 returns at this line
OllamaLineHit(raw) ==
    LET line == Strip(raw)
        bare == StripChars(line, Quotes)
    IN  /\ line # ""
        /\ ~StartsWith(line, "Commit message:")
        /\ \/ Contains(bare, ":") /\ Len(bare) <= MaxMessageLen
           \/ Len(bare) <= 50

\* what the loop returns at a line that hits: lines 398-406
OllamaLineValue(raw) ==
    LET line == StripChars(Strip(raw), Quotes)
    IN  IF Contains(line, ":") /\ Len(line) <= MaxMessageLen THEN line
        ELSE IF ~StartsWithTypeColon(line) THEN "feat: " \o Lower(line)
        ELSE line

ollama_clean(response) ==
    LET generated_text == Strip(response)
        lines          == Split(generated_text)
        hits           == {i \in 1..Len(lines) : OllamaLineHit(lines[i])}
        first_line     == StripChars(Strip(lines[1]), Quotes)
    IN  IF generated_text = "" THEN None
        ELSE IF hits # {}
        THEN Some(OllamaLineValue(lines[CHOOSE i \in hits : \A j \in hits : i <= j]))
        ELSE IF Len(first_line) <= 50 THEN Some(first_line)
        ELSE None

\* model.startswith(m.split(':')[0]) for some m of available_models: line 349
ModelFamily(m) == IF Contains(m, ":") THEN SubSeq(m, 1, IndexOf(m, ":") - 1) ELSE m

ModelAvailable(model, available_models) ==
    \E i \in 1..Len(available_models) : StartsWith(model, ModelFamily(available_models[i]))

DefaultOllamaModel == "llama3.2:1b"

\* the cleaning of an OpenAI reply without the cut to 72 characters
openai_clean_NoCut(content) == StripChars(Strip(content), Quotes)

\* the cleaning of an OpenAI reply: lines 446-449
openai_clean(content) == Take(StripChars(Strip(content), Quotes), MaxMessageLen)

(***************************************************************************)
(* The prompts built from the diff (main.py 182, 257).                     *)
(***************************************************************************)
Prompt(diff) == "Git commit message for:\n" \o Take(diff, PromptDiffLen) \o "\n\nMessage:"

SimplePrompt(prompt) ==
    "Commit message:\n" \o Take(prompt, SimplePromptLen)
        \o "\n\nGenerate a git commit message:"

\* models of try_huggingface_serverless: lines 243-247
Models == <<"microsoft/DialoGPT-small", "gpt2", "distilgpt2">>

(***************************************************************************)
(* Bounds and inputs of the model.                                         *)
(***************************************************************************)
\* number of consecutive runs of the tool over the same persisted record
MaxInvocations == 2

RECURSIVE Repeat(_, _)
Repeat(s, n) == IF n = 0 THEN "" ELSE s \o Repeat(s, n - 1)

\* diffs handed to generate_commit_message
Diffs ==
    { "",
      "+import requests\n+def send():\n    pass",
      "+def foo():",
      "-a = 1\n-b = 2\n-c = 3\n+d = 4",
      "+++ b/README.md\n+hello docs",
      "-old\n+fix the bug",
      "+++ b/requirements.txt\n+requests==2.0",
      "+import huggingface_hub",
      " unchanged line",
      "+++ b/main.py\n" \o Repeat("+x = 1\n", 51),
      Repeat(" context line of the file\n", 32) \o "+def late():\n    pass" }

\* texts a model service may generate
ModelTexts ==
    { "",
      "feat: add login flow",
      "FEAT:x",
      "Note: looks fine",
      "fix:",
      "Updated the parser module",
      "\"\"",
      "Commit message: \"tidy\"",
      "fix: " \o Repeat("very long ", 8),
      "Here you go\nhttp://example.com/x\nrefactor: split module" }

\* texts the services generate in the cascade
HFTexts == {"", "feat: add login flow", "Note: looks fine", "Updated the parser module",
            "short", "fix: " \o Repeat("very long ", 8)}

OllamaTexts == {"feat: add login flow", "\"\"", "Commit message: \"tidy\"",
                "fix: " \o Repeat("very long ", 8)}

OpenAITexts == {"feat: add login flow", "\"\"", "FEAT:x", "  ",
                "fix: " \o Repeat("very long ", 8)}

NoReply == [kind |-> "none", status |-> 0, shape |-> "", text |-> ""]

ErrorReplies ==
    {[kind |-> k, status |-> 0, shape |-> "", text |-> ""] : k \in {"timeout", "error"}}

StatusReply(n) == [kind |-> "response", status |-> n, shape |-> "", text |-> ""]

\* replies of the connectivity probes: a status or a failed request
ProbeReplies == {StatusReply(200), StatusReply(500)} \cup ErrorReplies

\* replies of the hosted inference API
HFReplies ==
    {[kind |-> "response", status |-> 200, shape |-> "list", text |-> t] : t \in HFTexts}
    \cup {[kind |-> "response", status |-> 200, shape |-> "dict", text |-> "fix: typo"]}
    \cup {[kind |-> "response", status |-> 200, shape |-> "other", text |-> ""]}
    \cup {StatusReply(n) : n \in {503, 401, 429, 500}}
    \cup ErrorReplies

\* replies of GET /api/tags of the local model service
AvailableModelLists == {<< >>, <<"llama3.2:1b">>, <<"mistral:7b">>}

\* replies of POST /api/generate of the local model service
OllamaReplies ==
    {[kind |-> "response", status |-> 200, shape |-> "json", text |-> t] : t \in OllamaTexts}
    \cup {StatusReply(500)} \cup ErrorReplies

\* replies of chat.completions.create
OpenAIReplies ==
    {[kind |-> "response", status |-> 200, shape |-> "content", text |-> t] : t \in OpenAITexts}
    \cup {[kind |-> "response", status |-> 200, shape |-> sh, text |-> ""] :
            sh \in {"nochoices", "nocontent"}}
    \cup ErrorReplies

HFTokens == {"", "hf_token"}

OpenAIKeys == {"", "sk-user"}

(***************************************************************************)
(* extract_github_token_from_session (main.py 697-745).  The response of   *)
(* otp.verify_code is a record of the places the method inspects; Absent   *)
(* marks a key or attribute that is missing, "" an empty (falsy) value.    *)
(***************************************************************************)
Absent == "<absent>"

\* session_jwt:          verify_response.session_jwt, "" when missing or empty
\* user:                 verify_response.user exists and is truthy
\* custom_github_token:  user.custom_attributes['github_token']
\* custom_oauth_github:  user.custom_attributes['oauth_tokens']['github']['access_token']
\* user_oauth_github:    user.oauth[<a name that lower-cases to github>]['access_token']
\* oauth_tokens_github:  verify_response.oauth_tokens['github']['access_token']
NoSession == [session_jwt |-> "", user |-> FALSE, custom_github_token |-> Absent,
              custom_oauth_github |-> Absent, user_oauth_github |-> Absent,
              oauth_tokens_github |-> Absent]

extract_github_token_from_session(full_response) ==
    LET \* lines 704-712
        custom == IF ~full_response.user THEN ""
                  ELSE IF full_response.custom_github_token # Absent
                  THEN full_response.custom_github_token
                  ELSE IF full_response.custom_oauth_github # Absent
                  THEN full_response.custom_oauth_github
                  ELSE ""
        \* lines 713-718
        oauth  == IF full_response.user /\ full_response.user_oauth_github # Absent
                  THEN full_response.user_oauth_github
                  ELSE custom
        \* lines 721-727
        tokens == IF oauth = "" /\ full_response.oauth_tokens_github # Absent
                  THEN full_response.oauth_tokens_github
                  ELSE oauth
        \* lines 728-734
        nested == IF oauth = "" /\ tokens = "" /\ full_response.user
                     /\ full_response.user_oauth_github # Absent
                  THEN full_response.user_oauth_github
                  ELSE tokens
    IN  IF nested # "" THEN Some(nested) ELSE None

(***************************************************************************)
(* State.                                                                  *)
(***************************************************************************)
VARIABLES
    pc,              \* position of the process in main() and the methods it calls
    run,             \* number of invocations of the tool started so far
    cmd,             \* parsed command line of the current invocation (args)
    exit_code,       \* exit status of the invocation that ended last
    ops,             \* repository and git operations executed in this invocation
    message,         \* message of the commit subcommand
    pushed,          \* branch the last git push went to, "" before any push
    persisted,       \* content of ~/.github-cli/config.json
    config,          \* self.config
    github,          \* self.github: the token the client is bound to, "" for None
    accepted,        \* hosting tokens the hosting API accepts during this invocation
    descope_client,  \* self.descope_client is not None
    openai_client,   \* self.openai_client is not None
    env_openai_key,  \* os.getenv('OPENAI_API_KEY'), "" when unset
    email,           \* email of the authenticate call
    force,           \* force of the authenticate call
    session,         \* response inspected by extract_github_token_from_session
    github_token,    \* token extract_github_token_from_session returned, or None
    auth_result,     \* value returned by authenticate
    trace,           \* prompts and collaborator calls of the authenticate call
    start_cfg,       \* persisted record when the authenticate call began
    caller,          \* who called setup_github_connection: "fast" path or "flow"
    git_diff,        \* argument of generate_commit_message
    hf_token,        \* hf_token of generate_with_huggingface, "" for None
    model_i,         \* index in Models of the model try_huggingface_serverless is at
    reply,           \* reply to the last request of the cascade
    calls,           \* prompts, requests and strategies of the cascade, in order
    net_ok,          \* some request of the cascade was answered by the service
    cm_result        \* value returned by generate_commit_message

mainVars == <<run, cmd, exit_code, ops, message, pushed>>

clientVars == <<github, accepted, descope_client, env_openai_key>>

authVars == <<email, force, session, github_token, auth_result, trace, start_cfg, caller>>

composerVars == <<git_diff, hf_token, model_i, reply, calls, net_ok, cm_result>>

vars == <<pc, mainVars, persisted, config, openai_client, clientVars, authVars, composerVars>>

\* the config record: a function from the keys present to their values
EmptyConfig == [k \in {} |-> ""]

Has(cfg, k) == k \in DOMAIN cfg

Put(cfg, k, v) == [x \in DOMAIN cfg \cup {k} |-> IF x = k THEN v ELSE cfg[x]]

\* cfg.get(k), "" for None
Get(cfg, k) == IF Has(cfg, k) THEN cfg[k] ELSE ""

(***************************************************************************)
(* generate_commit_message and generate_with_huggingface                   *)
(* (main.py 157-215): one action per request or prompt of the cascade.     *)
(***************************************************************************)
Answered(r) == r.kind = "response"

\* test_connectivity reporting no connectivity when both probes fail
TestConnectivity_BothFailIsOffline ==
    /\ pc = "test_connectivity"
    /\ \E r1 \in ProbeReplies :
          \/ /\ Answered(r1)
             /\ reply' = r1
             /\ calls' = Append(calls, "GET https://www.google.com")
             /\ net_ok' = TRUE
             /\ pc' = IF r1.status = 200 THEN "hf_token" ELSE "fallback"
          \/ /\ ~Answered(r1)
             /\ \E r2 \in ProbeReplies :
                   /\ reply' = r2
                   /\ calls' = calls \o <<"GET https://www.google.com",
                                          "GET https://httpbin.org/status/200">>
                   /\ net_ok' = (net_ok \/ Answered(r2))
                   /\ pc' = IF Answered(r2) /\ r2.status = 200
                            THEN "hf_token" ELSE "fallback"
    /\ UNCHANGED <<mainVars, persisted, config, openai_client, clientVars, authVars,
                   git_diff, hf_token, model_i, cm_result>>

\* test_connectivity (217-232) and the check of its result (177-179)
TestConnectivity ==
    /\ pc = "test_connectivity"
    /\ \E r1 \in ProbeReplies :
          \/ /\ Answered(r1)
             /\ reply' = r1
             /\ calls' = Append(calls, "GET https://www.google.com")
             /\ net_ok' = TRUE
             /\ pc' = IF r1.status = 200 THEN "hf_token" ELSE "fallback"
          \/ /\ ~Answered(r1)
             /\ \E r2 \in ProbeReplies :
                   /\ reply' = r2
                   /\ calls' = calls \o <<"GET https://www.google.com",
                                          "GET https://httpbin.org/status/200">>
                   /\ net_ok' = (net_ok \/ Answered(r2))
                   /\ pc' = IF Answered(r2) /\ r2.status # 200
                            THEN "fallback" ELSE "hf_token"
    /\ UNCHANGED <<mainVars, persisted, config, openai_client, clientVars, authVars,
                   git_diff, hf_token, model_i, cm_result>>

\* lines 184-189: the token from the environment or from the prompt
AskToken ==
    /\ pc = "hf_token"
    /\ \E env \in HFTokens :
          IF env # ""
          THEN hf_token' = env /\ calls' = calls
          ELSE \E response \in HFTokens :
                  /\ hf_token' = response
                  /\ calls' = Append(calls, "input HF token")
    /\ model_i' = 1
    /\ pc' = "serverless"
    /\ UNCHANGED <<mainVars, persisted, config, openai_client, clientVars, authVars,
                   git_diff, reply, net_ok, cm_result>>

\* without a token, the local model service is passed over as well
SkipServerless_SkipsLocalModel ==
    /\ pc = "serverless"
    /\ hf_token = ""
    /\ pc' = "openai"
    /\ UNCHANGED <<mainVars, persisted, config, openai_client, clientVars, authVars,
                   composerVars>>

\* try_huggingface_serverless without a token: lines 238-240
SkipServerless ==
    /\ pc = "serverless"
    /\ hf_token = ""
    /\ pc' = "ollama"
    /\ UNCHANGED <<mainVars, persisted, config, openai_client, clientVars, authVars,
                   composerVars>>

\* the message one reply of the hosted API yields: lines 277-308
ServerlessMessage(r, simple_prompt) ==
    IF Answered(r) /\ r.status = 200
    THEN IF r.shape = "list"
         THEN IF r.text # "" THEN extract_commit_message(r.text, simple_prompt) ELSE None
         ELSE IF r.shape = "dict" THEN extract_commit_message(r.text, simple_prompt)
         ELSE None
    ELSE None

\* the loop over models left at the first authorization failure
RequestModel_StopsOnAuthFailure ==
    /\ pc = "serverless"
    /\ hf_token # ""
    /\ \E r \in HFReplies :
          LET commit_msg == ServerlessMessage(r, SimplePrompt(Prompt(git_diff)))
          IN  /\ reply' = r
              /\ calls' = Append(calls, "POST huggingface " \o Models[model_i])
              /\ net_ok' = (net_ok \/ Answered(r))
              /\ IF Truthy(commit_msg)
                 THEN /\ cm_result' = commit_msg
                      /\ pc' = "gcm_done"
                      /\ model_i' = model_i
                 ELSE /\ cm_result' = cm_result
                      /\ IF model_i < Len(Models) /\ ~(Answered(r) /\ r.status = 401)
                         THEN pc' = pc /\ model_i' = model_i + 1
                         ELSE pc' = "ollama" /\ model_i' = model_i
    /\ UNCHANGED <<mainVars, persisted, config, openai_client, clientVars, authVars,
                   git_diff, hf_token>>

\* one iteration of the loop over models: lines 249-315
RequestModel ==
    /\ pc = "serverless"
    /\ hf_token # ""
    /\ \E r \in HFReplies :
          LET commit_msg == ServerlessMessage(r, SimplePrompt(Prompt(git_diff)))
          IN  /\ reply' = r
              /\ calls' = Append(calls, "POST huggingface " \o Models[model_i])
              /\ net_ok' = (net_ok \/ Answered(r))
              /\ IF Truthy(commit_msg)
                 THEN /\ cm_result' = commit_msg
                      /\ pc' = "gcm_done"
                      /\ model_i' = model_i
                 ELSE /\ cm_result' = cm_result
                      /\ IF model_i < Len(Models)
                         THEN pc' = pc /\ model_i' = model_i + 1
                         ELSE pc' = "ollama" /\ model_i' = model_i
    /\ UNCHANGED <<mainVars, persisted, config, openai_client, clientVars, authVars,
                   git_diff, hf_token>>

\* generate_with_ollama (338-417) called by try_alternative_apis (421-428)
GenerateWithOllama ==
    /\ pc = "ollama"
    /\ \E running \in ProbeReplies :
          \/ /\ ~(Answered(running) /\ running.status = 200)
             /\ reply' = running
             /\ calls' = Append(calls, "GET ollama /api/tags")
             /\ net_ok' = (net_ok \/ Answered(running))
             /\ cm_result' = cm_result
             /\ pc' = "openai"
          \/ /\ Answered(running) /\ running.status = 200
             /\ \E available_models \in AvailableModelLists :
                   LET model == IF ModelAvailable(DefaultOllamaModel, available_models)
                                THEN DefaultOllamaModel
                                ELSE IF available_models # << >> THEN available_models[1]
                                ELSE ""
                   IN  \/ /\ model = ""
                          /\ reply' = running
                          /\ calls' = calls \o <<"GET ollama /api/tags", "GET ollama /api/tags">>
                          /\ net_ok' = TRUE
                          /\ cm_result' = cm_result
                          /\ pc' = "openai"
                       \/ /\ model # ""
                          /\ \E r \in OllamaReplies :
                                LET result == IF Answered(r) /\ r.status = 200
                                              THEN ollama_clean(r.text) ELSE None
                                IN  /\ reply' = r
                                    /\ calls' = calls \o <<"GET ollama /api/tags",
                                                           "GET ollama /api/tags",
                                                           "POST ollama /api/generate " \o model>>
                                    /\ net_ok' = TRUE
                                    /\ IF Truthy(result)
                                       THEN cm_result' = result /\ pc' = "gcm_done"
                                       ELSE cm_result' = cm_result /\ pc' = "openai"
    /\ UNCHANGED <<mainVars, persisted, config, openai_client, clientVars, authVars,
                   git_diff, hf_token, model_i>>

\* setup_openai_client (101-128) declined at the key prompt: the OpenAI part of
\* try_alternative_apis (431-455) is skipped
OpenAIDeclined ==
    /\ pc = "openai"
    /\ ~openai_client
    /\ env_openai_key = "" /\ Get(config, "openai_api_key") = ""
    /\ calls' = Append(calls, "getpass OpenAI key")
    /\ pc' = "simple"
    /\ UNCHANGED <<mainVars, persisted, config, openai_client, clientVars, authVars,
                   git_diff, hf_token, model_i, reply, net_ok, cm_result>>

\* an exception of the OpenAI request ending generate_with_huggingface
OpenAIRequest_ErrorAborts ==
    /\ pc = "openai"
    /\ \E key \in OpenAIKeys \ {""}, r \in OpenAIReplies :
          LET known  == IF env_openai_key # "" THEN env_openai_key
                        ELSE Get(config, "openai_api_key")
              asked  == ~openai_client /\ known = ""
              commit_msg == IF Answered(r) /\ r.shape = "content" /\ Strip(r.text) # ""
                            THEN Some(openai_clean(r.text)) ELSE None
          IN  /\ IF asked
                 THEN /\ config' = Put(config, "openai_api_key", key)
                      /\ persisted' = config'
                      /\ calls' = calls \o <<"getpass OpenAI key", "POST openai chat.completions">>
                 ELSE /\ UNCHANGED <<config, persisted>>
                      /\ calls' = Append(calls, "POST openai chat.completions")
              /\ openai_client' = TRUE
              /\ reply' = r
              /\ net_ok' = (net_ok \/ Answered(r))
              /\ IF Truthy(commit_msg)
                 THEN cm_result' = commit_msg /\ pc' = "gcm_done"
                 ELSE /\ cm_result' = cm_result
                      /\ pc' = IF Answered(r) THEN "simple" ELSE "fallback"
    /\ UNCHANGED <<mainVars, clientVars, authVars, git_diff, hf_token, model_i>>

\* the OpenAI part of try_alternative_apis (431-455), with setup_openai_client
\* (101-128) when no client exists yet
OpenAIRequest ==
    /\ pc = "openai"
    /\ \E key \in OpenAIKeys \ {""}, r \in OpenAIReplies :
          LET known  == IF env_openai_key # "" THEN env_openai_key
                        ELSE Get(config, "openai_api_key")
              asked  == ~openai_client /\ known = ""
              commit_msg == IF Answered(r) /\ r.shape = "content" /\ Strip(r.text) # ""
                            THEN Some(openai_clean(r.text)) ELSE None
          IN  /\ IF asked
                 THEN /\ config' = Put(config, "openai_api_key", key)
                      /\ persisted' = config'
                      /\ calls' = calls \o <<"getpass OpenAI key", "POST openai chat.completions">>
                 ELSE /\ UNCHANGED <<config, persisted>>
                      /\ calls' = Append(calls, "POST openai chat.completions")
              /\ openai_client' = TRUE
              /\ reply' = r
              /\ net_ok' = (net_ok \/ Answered(r))
              /\ IF Truthy(commit_msg)
                 THEN cm_result' = commit_msg /\ pc' = "gcm_done"
                 ELSE cm_result' = cm_result /\ pc' = "simple"
    /\ UNCHANGED <<mainVars, clientVars, authVars, git_diff, hf_token, model_i>>

\* the third strategy of generate_with_huggingface (195-207)
SimpleTextGeneration ==
    /\ pc = "simple"
    /\ LET result == try_simple_text_generation(Prompt(git_diff))
       IN  /\ calls' = Append(calls, "try_simple_text_generation")
           /\ IF Truthy(result)
              THEN cm_result' = result /\ pc' = "gcm_done"
              ELSE cm_result' = cm_result /\ pc' = "fallback"
    /\ UNCHANGED <<mainVars, persisted, config, openai_client, clientVars, authVars,
                   git_diff, hf_token, model_i, reply, net_ok>>

\* generate_commit_message after generate_with_huggingface returned None (167-168)
Fallback ==
    /\ pc = "fallback"
    /\ calls' = Append(calls, "generate_fallback_message")
    /\ cm_result' = Some(generate_fallback_message(git_diff))
    /\ pc' = "gcm_done"
    /\ UNCHANGED <<mainVars, persisted, config, openai_client, clientVars, authVars,
                   git_diff, hf_token, model_i, reply, net_ok>>

(***************************************************************************)
(* Inputs of the authentication flow.                                      *)
(***************************************************************************)
\* the session token the identity provider issues in the given invocation
SessionToken(n) == "jwt-" \o ToString(n)

PromptEmails == {"a@x.io"}

\* what the user types at "Enter your GitHub token"
ManualTokens == {"", "ghp_A", "ghp_B"}

\* user.login of the account a hosting token belongs to
LoginOf(token) == "login-of-" \o token

\* the tokens the hosting API knows of: the typed ones and the one a session carries
HostingTokens == {"ghp_A", "ghp_B", "ghp_E"}

\* outcomes of Github(token).get_user().login: the login of an accepted token,
\* a GithubException for another one, or, for both, another error (no network)
HostingOutcomes(token) ==
    IF token \in accepted THEN {"ok", "error"} ELSE {"GithubException", "error"}

\* where a failing who-am-I call raises: in get_user() (750, 803), before
\* config['github_token'] is assigned, or in user.login (753, 806), after it
RaisedAt == {"get_user", "login"}

\* self.config after the who-am-I call on the token failed at the given place
ConfigAfterFailure(cfg, token, at) ==
    IF at = "login" THEN Put(cfg, "github_token", token) ELSE cfg

\* responses of otp.verify_code that carry a session token
SessionResponses(n) ==
    { [NoSession EXCEPT !.session_jwt = SessionToken(n)],
      [NoSession EXCEPT !.session_jwt = SessionToken(n), !.user = TRUE],
      [NoSession EXCEPT !.session_jwt = SessionToken(n), !.user = TRUE,
                        !.custom_github_token = "ghp_E"] }

Ev(ev, arg, out) == [ev |-> ev, arg |-> arg, out |-> out]

\* "return result" out of authenticate
Return(result) == pc' = "auth_return" /\ auth_result' = result

\* an exception of setup_github_connection that no caller catches
Raise_Propagates == pc' = "uncaught" /\ auth_result' = auth_result

\* what an exception other than GithubException raised by
\* setup_github_connection does: caught at 591 on the fast path (the flow goes
\* on at 593), caught at 693 / 777 when complete_authentication(_with_session)
\* made the call (authenticate returns False); a call from anywhere else
\* would let it through
Raise == IF caller = "fast"
         THEN pc' = "choose_method" /\ auth_result' = auth_result
         ELSE IF caller = "flow" THEN Return(FALSE)
         ELSE pc' = "uncaught" /\ auth_result' = auth_result

\* authenticate_descope without the test of the identity-provider client
authenticate_descope_NoClientCheck ==
    /\ pc = "authenticate"
    /\ IF ~force /\ Has(config, "descope_session_token") /\ Has(config, "user_email")
       THEN pc' = "setup_github_connection" /\ caller' = "fast" /\ auth_result' = auth_result
       ELSE pc' = "choose_method" /\ caller' = caller /\ auth_result' = auth_result
    /\ UNCHANGED <<mainVars, persisted, config, openai_client, clientVars, composerVars,
                   email, force, session, github_token, trace, start_cfg>>

(***************************************************************************)
(* authenticate / authenticate_descope (main.py 579-613, 816-818).         *)
(***************************************************************************)
authenticate_descope ==
    /\ pc = "authenticate"
    /\ IF ~descope_client
       THEN Return(FALSE) /\ caller' = caller
       ELSE IF ~force /\ Has(config, "descope_session_token") /\ Has(config, "user_email")
       THEN pc' = "setup_github_connection" /\ caller' = "fast" /\ auth_result' = auth_result
       ELSE pc' = "choose_method" /\ caller' = caller /\ auth_result' = auth_result
    /\ UNCHANGED <<mainVars, persisted, config, openai_client, clientVars, composerVars,
                   email, force, session, github_token, trace, start_cfg>>

\* lines 593-613: the email and method prompts
ChooseMethod ==
    /\ pc = "choose_method"
    /\ \E typed \in PromptEmails, choice \in {"1", "2", "3"} :
          /\ email' = IF email = "" THEN typed ELSE email
          /\ trace' = trace
                \o (IF email = "" THEN <<Ev("input email", typed, "")>> ELSE << >>)
                \o <<Ev("input choice", choice, "")>>
          /\ IF choice = "1" THEN pc' = "magic_link" /\ auth_result' = auth_result
             ELSE IF choice = "2" THEN pc' = "otp" /\ auth_result' = auth_result
             ELSE Return(FALSE)
    /\ UNCHANGED <<mainVars, persisted, config, openai_client, clientVars, composerVars,
                   force, session, github_token, start_cfg, caller>>

\* authenticate_magic_link saving the session token as soon as it is pasted
authenticate_magic_link_SavesSession ==
    /\ pc = "magic_link"
    /\ \/ /\ trace' = Append(trace, Ev("magiclink.sign_in", email, "raise"))
          /\ Return(FALSE)
          /\ UNCHANGED <<config, persisted, caller>>
       \/ \E session_token \in {"", SessionToken(run)} :
             /\ trace' = trace \o <<Ev("magiclink.sign_in", email, "ok"),
                                    Ev("input session token", session_token, "")>>
             /\ IF session_token = ""
                THEN Return(FALSE) /\ UNCHANGED <<config, persisted, caller>>
                ELSE /\ config' = Put(Put(config, "descope_session_token", session_token),
                                      "user_email", email)
                     /\ persisted' = config'
                     /\ caller' = "flow"
                     /\ pc' = "setup_github_connection"
                     /\ auth_result' = auth_result
    /\ UNCHANGED <<mainVars, openai_client, clientVars, composerVars,
                   email, force, session, github_token, start_cfg>>

\* authenticate_magic_link going on with an empty pasted token
authenticate_magic_link_EmptyTokenGoesOn ==
    /\ pc = "magic_link"
    /\ \/ /\ trace' = Append(trace, Ev("magiclink.sign_in", email, "raise"))
          /\ Return(FALSE)
          /\ UNCHANGED <<config, caller>>
       \/ \E session_token \in {"", SessionToken(run)} :
             /\ trace' = trace \o <<Ev("magiclink.sign_in", email, "ok"),
                                    Ev("input session token", session_token, "")>>
             /\ config' = Put(Put(config, "descope_session_token", session_token),
                              "user_email", email)
             /\ caller' = "flow"
             /\ pc' = "setup_github_connection"
             /\ auth_result' = auth_result
    /\ UNCHANGED <<mainVars, persisted, openai_client, clientVars, composerVars,
                   email, force, session, github_token, start_cfg>>

\* authenticate_magic_link (615-639) with complete_authentication (767-779)
authenticate_magic_link ==
    /\ pc = "magic_link"
    /\ \/ /\ trace' = Append(trace, Ev("magiclink.sign_in", email, "raise"))
          /\ Return(FALSE)
          /\ UNCHANGED <<config, caller>>
       \/ \E session_token \in {"", SessionToken(run)} :
             /\ trace' = trace \o <<Ev("magiclink.sign_in", email, "ok"),
                                    Ev("input session token", session_token, "")>>
             /\ IF session_token = ""
                THEN Return(FALSE) /\ UNCHANGED <<config, caller>>
                ELSE /\ config' = Put(Put(config, "descope_session_token", session_token),
                                      "user_email", email)
                     /\ caller' = "flow"
                     /\ pc' = "setup_github_connection"
                     /\ auth_result' = auth_result
    /\ UNCHANGED <<mainVars, persisted, openai_client, clientVars, composerVars,
                   email, force, session, github_token, start_cfg>>

\* authenticate_otp (641-675) with complete_authentication_with_session (677-695)
authenticate_otp ==
    /\ pc = "otp"
    /\ \/ /\ trace' = Append(trace, Ev("otp.sign_in", email, "raise"))
          /\ Return(FALSE)
          /\ UNCHANGED <<config, caller, session, github_token>>
       \/ /\ trace' = trace \o <<Ev("otp.sign_in", email, "ok"), Ev("input otp code", "", "")>>
          /\ Return(FALSE)
          /\ UNCHANGED <<config, caller, session, github_token>>
       \/ /\ trace' = trace \o <<Ev("otp.sign_in", email, "ok"),
                                 Ev("input otp code", "123456", ""),
                                 Ev("otp.verify_code", "123456", "raise")>>
          /\ Return(FALSE)
          /\ UNCHANGED <<config, caller, session, github_token>>
       \/ \E verify_response \in SessionResponses(run) \cup {NoSession} :
             /\ trace' = trace \o <<Ev("otp.sign_in", email, "ok"),
                                    Ev("input otp code", "123456", ""),
                                    Ev("otp.verify_code", "123456", "ok")>>
             /\ session' = verify_response
             /\ IF verify_response.session_jwt = ""
                THEN Return(FALSE) /\ UNCHANGED <<config, caller, github_token>>
                ELSE /\ config' = Put(Put(config, "descope_session_token",
                                          verify_response.session_jwt),
                                      "user_email", email)
                     /\ github_token' = extract_github_token_from_session(verify_response)
                     /\ caller' = "flow"
                     /\ auth_result' = auth_result
                     /\ pc' = IF Truthy(github_token')
                              THEN "setup_github_with_token"
                              ELSE "setup_github_connection"
    /\ UNCHANGED <<mainVars, persisted, openai_client, clientVars, composerVars,
                   email, force, start_cfg>>

\* setup_github_with_token saving the token before the who-am-I call
setup_github_with_token_SavesFirst ==
    /\ pc = "setup_github_with_token"
    /\ LET token == github_token[1]
       IN  \E out \in HostingOutcomes(token) :
              /\ github' = token
              /\ trace' = Append(trace, Ev("get_user", token, out))
              /\ config' = Put(Put(config, "github_token", token),
                               "github_username", LoginOf(token))
              /\ persisted' = config'
              /\ IF out = "ok" THEN Return(TRUE)
                 ELSE IF out = "GithubException"
                 THEN pc' = "setup_github_connection" /\ auth_result' = auth_result
                 ELSE Return(FALSE)
    /\ UNCHANGED <<mainVars, openai_client, accepted, descope_client, env_openai_key,
                   composerVars,
                   email, force, session, github_token, start_cfg, caller>>

\* setup_github_with_token (747-765) on the token found in the session
setup_github_with_token ==
    /\ pc = "setup_github_with_token"
    /\ LET token == github_token[1]
       IN  \E out \in HostingOutcomes(token) :
              /\ github' = token
              /\ trace' = Append(trace, Ev("get_user", token, out))
              /\ IF out = "ok"
                 THEN /\ config' = Put(Put(config, "github_token", token),
                                       "github_username", LoginOf(token))
                      /\ persisted' = config'
                      /\ Return(TRUE)
                 ELSE /\ \E at \in RaisedAt : config' = ConfigAfterFailure(config, token, at)
                      /\ UNCHANGED persisted
                      /\ IF out = "GithubException"
                         THEN pc' = "setup_github_connection" /\ auth_result' = auth_result
                         ELSE Return(FALSE)
    /\ UNCHANGED <<mainVars, openai_client, accepted, descope_client, env_openai_key,
                   composerVars,
                   email, force, session, github_token, start_cfg, caller>>

\* setup_github_connection returning success for a stored token without
\* asking the hosting API
setup_github_connection_TrustsStored ==
    /\ pc = "setup_github_connection"
    /\ IF Has(config, "github_token") /\ Has(config, "github_username")
       THEN /\ github' = config["github_token"]
            /\ trace' = trace
            /\ Return(TRUE)
       ELSE /\ pc' = "token_prompt"
            /\ UNCHANGED <<github, trace, auth_result>>
    /\ UNCHANGED <<mainVars, persisted, config, openai_client, accepted, descope_client,
                   env_openai_key, composerVars, email, force, session, github_token,
                   start_cfg, caller>>

\* setup_github_connection letting the rejection of the stored token through
setup_github_connection_RejectionRaises ==
    /\ pc = "setup_github_connection"
    /\ IF Has(config, "github_token") /\ Has(config, "github_username")
       THEN \E out \in HostingOutcomes(config["github_token"]) :
               /\ github' = config["github_token"]
               /\ trace' = Append(trace, Ev("get_user", config["github_token"], out))
               /\ IF out = "ok" THEN Return(TRUE) ELSE Raise
       ELSE /\ pc' = "token_prompt"
            /\ UNCHANGED <<github, trace, auth_result>>
    /\ UNCHANGED <<mainVars, persisted, config, openai_client, accepted, descope_client,
                   env_openai_key, composerVars, email, force, session, github_token,
                   start_cfg, caller>>

\* setup_github_connection asking for a token whatever the config holds
setup_github_connection_IgnoresStored ==
    /\ pc = "setup_github_connection"
    /\ pc' = "token_prompt"
    /\ UNCHANGED <<github, trace, auth_result>>
    /\ UNCHANGED <<mainVars, persisted, config, openai_client, accepted, descope_client,
                   env_openai_key, composerVars, email, force, session, github_token,
                   start_cfg, caller>>

\* setup_github_connection, the check of the stored token (782-789)
setup_github_connection ==
    /\ pc = "setup_github_connection"
    /\ IF Has(config, "github_token") /\ Has(config, "github_username")
       THEN \E out \in HostingOutcomes(config["github_token"]) :
               /\ github' = config["github_token"]
               /\ trace' = Append(trace, Ev("get_user", config["github_token"], out))
               /\ IF out = "ok" THEN Return(TRUE)
                  ELSE IF out = "GithubException"
                  THEN pc' = "token_prompt" /\ auth_result' = auth_result
                  ELSE Raise
       ELSE /\ pc' = "token_prompt"
            /\ UNCHANGED <<github, trace, auth_result>>
    /\ UNCHANGED <<mainVars, persisted, config, openai_client, accepted, descope_client,
                   env_openai_key, composerVars, email, force, session, github_token,
                   start_cfg, caller>>

\* the manual entry of a token asking again after a rejection
setup_github_connection_prompt_AsksAgain ==
    /\ pc = "token_prompt"
    /\ \E typed \in ManualTokens :
          IF typed = ""
          THEN /\ trace' = Append(trace, Ev("getpass github token", "", ""))
               /\ Return(FALSE)
               /\ UNCHANGED <<github, config, persisted>>
          ELSE \E out \in HostingOutcomes(typed) :
                  /\ github' = typed
                  /\ trace' = trace \o <<Ev("getpass github token", typed, ""),
                                         Ev("get_user", typed, out)>>
                  /\ IF out = "ok"
                     THEN /\ config' = Put(Put(config, "github_token", typed),
                                           "github_username", LoginOf(typed))
                          /\ persisted' = config'
                          /\ Return(TRUE)
                     ELSE /\ UNCHANGED <<config, persisted>>
                          /\ IF out = "GithubException"
                             THEN pc' = "token_prompt" /\ auth_result' = auth_result
                             ELSE Raise
    /\ UNCHANGED <<mainVars, openai_client, accepted, descope_client, env_openai_key,
                   composerVars,
                   email, force, session, github_token, start_cfg, caller>>

\* the manual entry of a token without save_config
setup_github_connection_prompt_NoSave ==
    /\ pc = "token_prompt"
    /\ \E typed \in ManualTokens :
          IF typed = ""
          THEN /\ trace' = Append(trace, Ev("getpass github token", "", ""))
               /\ Return(FALSE)
               /\ UNCHANGED <<github, config, persisted>>
          ELSE \E out \in HostingOutcomes(typed) :
                  /\ github' = typed
                  /\ trace' = trace \o <<Ev("getpass github token", typed, ""),
                                         Ev("get_user", typed, out)>>
                  /\ persisted' = persisted
                  /\ IF out = "ok"
                     THEN /\ config' = Put(Put(config, "github_token", typed),
                                           "github_username", LoginOf(typed))
                          /\ Return(TRUE)
                     ELSE /\ UNCHANGED config
                          /\ IF out = "GithubException" THEN Return(FALSE) ELSE Raise
    /\ UNCHANGED <<mainVars, openai_client, accepted, descope_client, env_openai_key,
                   composerVars,
                   email, force, session, github_token, start_cfg, caller>>

\* setup_github_connection, the manual entry of a token (791-814)
setup_github_connection_prompt ==
    /\ pc = "token_prompt"
    /\ \E typed \in ManualTokens :
          IF typed = ""
          THEN /\ trace' = Append(trace, Ev("getpass github token", "", ""))
               /\ Return(FALSE)
               /\ UNCHANGED <<github, config, persisted>>
          ELSE \E out \in HostingOutcomes(typed) :
                  /\ github' = typed
                  /\ trace' = trace \o <<Ev("getpass github token", typed, ""),
                                         Ev("get_user", typed, out)>>
                  /\ IF out = "ok"
                     THEN /\ config' = Put(Put(config, "github_token", typed),
                                           "github_username", LoginOf(typed))
                          /\ persisted' = config'
                          /\ Return(TRUE)
                     ELSE /\ \E at \in RaisedAt :
                                config' = ConfigAfterFailure(config, typed, at)
                          /\ UNCHANGED persisted
                          /\ IF out = "GithubException" THEN Return(FALSE) ELSE Raise
    /\ UNCHANGED <<mainVars, openai_client, accepted, descope_client, env_openai_key,
                   composerVars,
                   email, force, session, github_token, start_cfg, caller>>

NextAuth ==
    \/ authenticate_descope
    \/ ChooseMethod
    \/ authenticate_magic_link
    \/ authenticate_otp
    \/ setup_github_with_token
    \/ setup_github_connection
    \/ setup_github_connection_prompt

(***************************************************************************)
(* main (main.py 951-1058) and the construction of GitHubCLI (38-52).      *)
(***************************************************************************)
Command(name, mail, forced, auto, msg, branch) ==
    [name |-> name, email |-> mail, force |-> forced, auto |-> auto,
     message |-> msg, branch |-> branch]

NoCmd == Command("none", "", FALSE, FALSE, "", "")

\* the command lines of the model
Commands ==
    {Command("auth", mail, forced, FALSE, "", "") : mail \in {"", "a@x.io"}, forced \in BOOLEAN}
    \cup {Command(name, "", FALSE, FALSE, "", "") : name \in {"help", "status", "init", "issue"}}
    \cup {Command("commit", "", FALSE, FALSE, msg, "main") : msg \in {"", "typed message"}}
    \cup {Command("commit", "", FALSE, TRUE, "", branch) : branch \in {"main", "dev"}}

\* what get_git_diff returns (main.py 130-155): a diff, or None as << >>
GitDiffs == {None, Some("+def foo():")}

\* branch git rev-parse --abbrev-ref HEAD reports
CurrentBranches == {"main", "feature"}

Op(name, ok) == [op |-> name, ok |-> ok]

\* sys.exit(code), or the end of main with code 0
Exit(code) == pc' = "exited" /\ exit_code' = code

Start ==
    /\ pc = "idle"
    /\ run < MaxInvocations
    /\ run' = run + 1
    /\ \E args \in Commands, initialised \in BOOLEAN, key \in {"", "sk-env"},
          valid \in SUBSET HostingTokens :
          /\ cmd' = args
          /\ accepted' = valid
          /\ descope_client' = initialised
          \* the variable is read by the cascade only
          /\ env_openai_key' = IF args.auto THEN key ELSE ""
          /\ openai_client' = (env_openai_key' # "" \/ Get(persisted, "openai_api_key") # "")
          /\ email' = args.email
          /\ force' = args.force
          /\ message' = args.message
          /\ IF args.name = "help" THEN Exit(0)
             ELSE /\ exit_code' = -1
                  /\ pc' = IF args.name = "status" THEN "status" ELSE "authenticate"
    /\ config' = persisted
    /\ start_cfg' = persisted
    /\ UNCHANGED <<persisted, ops, pushed, github, session, github_token, auth_result,
                   trace, caller, composerVars>>

\* the process is gone: only the config file is left
ProcessEnd ==
    /\ pc = "exited"
    /\ pc' = "idle"
    /\ cmd' = NoCmd
    /\ exit_code' = -1
    /\ ops' = << >>
    /\ message' = ""
    /\ pushed' = ""
    /\ config' = EmptyConfig
    /\ github' = ""
    /\ accepted' = {}
    /\ descope_client' = FALSE
    /\ env_openai_key' = ""
    /\ openai_client' = FALSE
    /\ email' = ""
    /\ force' = FALSE
    /\ session' = NoSession
    /\ github_token' = None
    /\ auth_result' = FALSE
    /\ trace' = << >>
    /\ start_cfg' = EmptyConfig
    /\ caller' = ""
    /\ git_diff' = ""
    /\ hf_token' = ""
    /\ model_i' = 1
    /\ reply' = NoReply
    /\ calls' = << >>
    /\ net_ok' = FALSE
    /\ cm_result' = None
    /\ UNCHANGED <<run, persisted>>

\* main going on whatever authenticate returned
AfterAuthenticate_IgnoresFailure ==
    /\ pc = "auth_return"
    /\ IF cmd.name = "auth" THEN Exit(0)
       ELSE pc' = cmd.name /\ exit_code' = exit_code
    /\ email' = ""
    /\ force' = FALSE
    /\ session' = NoSession
    /\ github_token' = None
    /\ caller' = ""
    /\ trace' = << >>
    /\ UNCHANGED <<run, cmd, ops, message, pushed, persisted, config, openai_client,
                   clientVars, auth_result, start_cfg, composerVars>>

\* the test of the value authenticate returned: 993-995, 999-1001, 1009-1011,
\* 1054-1056
AfterAuthenticate ==
    /\ pc = "auth_return"
    /\ IF ~auth_result THEN Exit(1)
       ELSE IF cmd.name = "auth" THEN Exit(0)
       ELSE pc' = cmd.name /\ exit_code' = exit_code
    \* the arguments and locals of the call are gone
    /\ email' = ""
    /\ force' = FALSE
    /\ session' = NoSession
    /\ github_token' = None
    /\ caller' = ""
    /\ trace' = << >>
    /\ UNCHANGED <<run, cmd, ops, message, pushed, persisted, config, openai_client,
                   clientVars, auth_result, start_cfg, composerVars>>

\* the status subcommand: 1049-1050
ShowStatus ==
    /\ pc = "status"
    /\ ops' = Append(ops, Op("show_status", TRUE))
    /\ Exit(0)
    /\ UNCHANGED <<run, cmd, message, pushed, persisted, config, openai_client,
                   clientVars, authVars, composerVars>>

\* the init subcommand: get_or_create_repo (820-844) and its test (1002-1004)
GetOrCreateRepo ==
    /\ pc = "init"
    /\ \E repo \in BOOLEAN :
          /\ ops' = Append(ops, Op("get_or_create_repo", repo))
          /\ IF repo THEN pc' = "init_local_repo" /\ exit_code' = exit_code ELSE Exit(1)
    /\ UNCHANGED <<run, cmd, message, pushed, persisted, config, openai_client,
                   clientVars, authVars, composerVars>>

\* init_local_repo (846-868) and its test (1005-1006)
InitLocalRepo ==
    /\ pc = "init_local_repo"
    /\ \E ok \in BOOLEAN :
          /\ ops' = Append(ops, Op("init_local_repo", ok))
          /\ Exit(IF ok THEN 0 ELSE 1)
    /\ UNCHANGED <<run, cmd, message, pushed, persisted, config, openai_client,
                   clientVars, authVars, composerVars>>

\* the commit subcommand up to the call of generate_commit_message: 1013-1023,
\* 1042-1044
CommitMessage ==
    /\ pc = "commit"
    /\ IF cmd.auto
       THEN \E diff \in GitDiffs :
               /\ ops' = Append(ops, Op("get_git_diff", diff # None))
               /\ IF diff = None
                  THEN Exit(1) /\ git_diff' = git_diff
                  ELSE pc' = "generate_commit_message" /\ git_diff' = diff[1]
                       /\ exit_code' = exit_code
       ELSE /\ IF message = "" THEN Exit(1) ELSE pc' = "commit_and_push" /\ exit_code' = exit_code
            /\ UNCHANGED <<ops, git_diff>>
    /\ UNCHANGED <<run, cmd, message, pushed, persisted, config, openai_client,
                   clientVars, authVars, hf_token, model_i, reply, calls, net_ok, cm_result>>

\* the messages the cascade can return for a diff before it reaches the OpenAI
\* request: the fallback's, a hosted model's, the local model's
EarlyResults(diff) ==
    LET all == {Some(generate_fallback_message(diff))}
               \cup {ServerlessMessage(r, SimplePrompt(Prompt(diff))) : r \in HFReplies}
               \cup {ollama_clean(t) : t \in OllamaTexts}
    IN  {m \in all : Truthy(m)}

\* the messages the OpenAI request can yield
OpenAIResults ==
    {m \in {Some(openai_clean(t)) : t \in {x \in OpenAITexts : Strip(x) # ""}} : Truthy(m)}

\* generate_commit_message (157-168) as one step of main (1023): the message
\* is one the cascade can return, and the OpenAI key typed at the prompt of
\* setup_openai_client is saved
GenerateCommitMessage ==
    /\ pc = "generate_commit_message"
    /\ \/ /\ cm_result' \in EarlyResults(git_diff)
          /\ UNCHANGED <<config, persisted, openai_client>>
       \/ /\ cm_result' \in OpenAIResults \cup {try_simple_text_generation(Prompt(git_diff))}
          /\ openai_client' = TRUE
          /\ IF openai_client THEN UNCHANGED <<config, persisted>>
             ELSE \E key \in OpenAIKeys \ {""} :
                     /\ config' = Put(config, "openai_api_key", key)
                     /\ persisted' = config'
       \/ /\ ~openai_client
          /\ cm_result' = try_simple_text_generation(Prompt(git_diff))
          /\ UNCHANGED <<config, persisted, openai_client>>
    /\ pc' = "confirm"
    /\ UNCHANGED <<mainVars, clientVars, authVars, git_diff, hf_token, model_i, reply,
                   calls, net_ok>>

\* the confirmation of the generated message: 1024-1040
ConfirmMessage ==
    /\ pc = "confirm"
    /\ IF ~Truthy(cm_result) THEN Exit(1) /\ message' = message
       ELSE \E confirm \in {"y", "n", "edit"}, edited \in {"", "edited message"} :
               IF confirm = "n" THEN Exit(1) /\ message' = message
               ELSE /\ message' = IF confirm = "edit" /\ edited # "" THEN edited
                                  ELSE cm_result[1]
                    /\ pc' = "commit_and_push"
                    /\ exit_code' = exit_code
    /\ UNCHANGED <<run, cmd, ops, pushed, persisted, config, openai_client,
                   clientVars, authVars, composerVars>>

\* commit_and_push (870-894) and its test (1046-1047)
CommitAndPush ==
    /\ pc = "commit_and_push"
    /\ \/ \* nothing staged: "No changes to commit"
          /\ ops' = Append(ops, Op("commit_and_push", TRUE))
          /\ pushed' = pushed
          /\ Exit(0)
       \/ \* a git command failed
          /\ ops' = Append(ops, Op("commit_and_push", FALSE))
          /\ pushed' = pushed
          /\ Exit(1)
       \/ \E current_branch \in CurrentBranches :
             /\ ops' = Append(ops, Op("commit_and_push", TRUE))
             /\ pushed' = current_branch
             /\ Exit(0)
    /\ UNCHANGED <<run, cmd, message, persisted, config, openai_client,
                   clientVars, authVars, composerVars>>

\* the issue subcommand: show_issues (896-912) called at 1057-1058
ShowIssues ==
    /\ pc = "issue"
    /\ \E listed \in BOOLEAN :
          ops' = Append(ops, Op("show_issues", listed))
    /\ Exit(0)
    /\ UNCHANGED <<run, cmd, message, pushed, persisted, config, openai_client,
                   clientVars, authVars, composerVars>>

NextMain ==
    \/ Start
    \/ ProcessEnd
    \/ AfterAuthenticate
    \/ ShowStatus
    \/ GetOrCreateRepo
    \/ InitLocalRepo
    \/ CommitMessage
    \/ GenerateCommitMessage
    \/ ConfirmMessage
    \/ CommitAndPush
    \/ ShowIssues

NextCompose ==
    \/ TestConnectivity
    \/ AskToken
    \/ SkipServerless
    \/ RequestModel
    \/ GenerateWithOllama
    \/ OpenAIDeclined
    \/ OpenAIRequest
    \/ SimpleTextGeneration
    \/ Fallback


\* the variables no function under test reads, as one invocation leaves them
Quiet ==
    /\ run = 1
    /\ cmd = NoCmd
    /\ exit_code = -1
    /\ ops = << >>
    /\ message = ""
    /\ pushed = ""
    /\ persisted = EmptyConfig
    /\ config = EmptyConfig
    /\ github = ""
    /\ accepted = {}
    /\ descope_client = TRUE
    /\ email = ""
    /\ force = FALSE
    /\ github_token = None
    /\ auth_result = FALSE
    /\ trace = << >>
    /\ start_cfg = EmptyConfig
    /\ caller = ""
    /\ hf_token = ""
    /\ model_i = 1
    /\ reply = NoReply
    /\ calls = << >>
    /\ net_ok = FALSE
    /\ cm_result = None

\* a call of generate_commit_message on any diff, with or without an OpenAI client
InitCompose ==
    /\ Quiet
    /\ pc = "test_connectivity"
    /\ env_openai_key \in {"", "sk-env"}
    /\ openai_client = (env_openai_key # "")
    /\ session = NoSession
    /\ git_diff \in Diffs

SpecCompose == InitCompose /\ [][NextCompose]_vars

(***************************************************************************)
(* The pure functions on their own inputs.                                 *)
(***************************************************************************)
\* number of lines of the diffs generate_fallback_message is applied to
MaxDiffLines == 3

DiffLines == {"+def foo():", "+import os", "-removed = 1", "+added = 1", "-fix the Bug",
              " run tests", "+++ b/README.md", "--- a/package.json", "+import bugtracker"}

RECURSIVE LineDiffs(_)
LineDiffs(n) ==
    IF n = 0 THEN {""}
    ELSE LET shorter == LineDiffs(n - 1)
         IN  shorter \cup DiffLines
                     \cup {d \o "\n" \o l : d \in shorter \ {""}, l \in DiffLines}

\* diffs that trigger one or several of the literal overrides
OverrideDiffs ==
    { "+++ b/requirements.txt\n+huggingface_hub==1.0",
      "+++ b/requirements.txt\n+openai==1.0",
      "+import openai\n+import huggingface_hub",
      "+++ b/main.py\n+# see requirements.txt\n" \o Repeat("+x = 1\n", 51),
      "+++ b/main.py\n+import openai\n" \o Repeat("+x = 1\n", 51),
      "--- a/main.py\n-def old():\n-    pass" }

\* generate_fallback_message applied to every diff of the bound
InitFallback ==
    /\ Quiet
    /\ pc = "fallback"
    /\ env_openai_key = ""
    /\ openai_client = FALSE
    /\ session = NoSession
    /\ git_diff \in LineDiffs(MaxDiffLines) \cup Diffs \cup OverrideDiffs

SpecFallback == InitFallback /\ [][Fallback]_vars

\* the responses of otp.verify_code: every place holds nothing, an empty
\* value, or a token of its own
AllSessions ==
    [session_jwt : {"jwt-1"}, user : BOOLEAN,
     custom_github_token : {Absent, "", "ghp_E"},
     custom_oauth_github : {Absent, "", "ghp_F"},
     user_oauth_github   : {Absent, "", "ghp_O"},
     oauth_tokens_github : {Absent, "", "ghp_T"}]

\* extract_github_token_from_session applied to the response: line 683
ExtractToken ==
    /\ pc = "extract"
    /\ github_token' = extract_github_token_from_session(session)
    /\ pc' = "extracted"
    /\ UNCHANGED <<mainVars, persisted, config, openai_client, clientVars, composerVars,
                   email, force, session, auth_result, trace, start_cfg, caller>>

InitExtract ==
    /\ Quiet
    /\ pc = "extract"
    /\ env_openai_key = ""
    /\ openai_client = FALSE
    /\ session \in AllSessions
    /\ git_diff = ""

SpecExtract == InitExtract /\ [][ExtractToken]_vars

\* number of lines of the texts extract_commit_message is applied to
MaxTextLines == 2

\* lines a model service may generate
TextLines ==
    { "feat: add login flow",
      "refactor: split module",
      "Note: looks fine",
      "http://example.com/x",
      "Here you go",
      "fixed the parser module",
      "Updated the parser module",
      "Generate a commit message",
      "short",
      "fix: " \o Repeat("very long ", 8),
      "Summary: " \o Repeat("rather long ", 6),
      "Changes: " \o Repeat("rather long ", 6) }

RECURSIVE LineTexts(_)
LineTexts(n) ==
    IF n = 0 THEN {""}
    ELSE LET shorter == LineTexts(n - 1)
         IN  shorter \cup TextLines
                     \cup {t \o "\n" \o l : t \in shorter \ {""}, l \in TextLines}

\* extract_commit_message applied to the generated text: lines 484-517
ExtractMessage ==
    /\ pc = "extract_message"
    /\ cm_result' = extract_commit_message(reply.text, git_diff)
    /\ pc' = "message_extracted"
    /\ UNCHANGED <<mainVars, persisted, config, openai_client, clientVars, authVars,
                   git_diff, hf_token, model_i, reply, calls, net_ok>>

\* extract_commit_message applied to every text of the bound
InitMessage ==
    /\ run = 1
    /\ cmd = NoCmd
    /\ exit_code = -1
    /\ ops = << >>
    /\ message = ""
    /\ pushed = ""
    /\ persisted = EmptyConfig
    /\ config = EmptyConfig
    /\ github = ""
    /\ accepted = {}
    /\ descope_client = TRUE
    /\ email = ""
    /\ force = FALSE
    /\ github_token = None
    /\ auth_result = FALSE
    /\ trace = << >>
    /\ start_cfg = EmptyConfig
    /\ caller = ""
    /\ hf_token = ""
    /\ model_i = 1
    /\ calls = << >>
    /\ net_ok = TRUE
    /\ cm_result = None
    /\ pc = "extract_message"
    /\ env_openai_key = ""
    /\ openai_client = FALSE
    /\ session = NoSession
    /\ git_diff \in {"", "+added = 1"}
    /\ \E t \in LineTexts(MaxTextLines) \cup ModelTexts :
            reply = [kind |-> "response", status |-> 200, shape |-> "list", text |-> t]

SpecMessage == InitMessage /\ [][ExtractMessage]_vars

\* before the first invocation: no config file
Init ==
    /\ pc = "idle"
    /\ run = 0
    /\ cmd = NoCmd
    /\ exit_code = -1
    /\ ops = << >>
    /\ message = ""
    /\ pushed = ""
    /\ persisted = EmptyConfig
    /\ config = EmptyConfig
    /\ github = ""
    /\ accepted = {}
    /\ descope_client = FALSE
    /\ env_openai_key = ""
    /\ openai_client = FALSE
    /\ email = ""
    /\ force = FALSE
    /\ session = NoSession
    /\ github_token = None
    /\ auth_result = FALSE
    /\ trace = << >>
    /\ start_cfg = EmptyConfig
    /\ caller = ""
    /\ git_diff = ""
    /\ hf_token = ""
    /\ model_i = 1
    /\ reply = NoReply
    /\ calls = << >>
    /\ net_ok = FALSE
    /\ cm_result = None

Next == NextMain \/ NextAuth

Spec == Init /\ [][Next]_vars

\* the tool's invocations together with the step-wise cascade
NextBoth == Next \/ NextCompose

SpecBoth == (Init \/ InitCompose) /\ [][NextBoth]_vars

(***************************************************************************)
(* The commit-message schema of the specification:                         *)
(* ^(feat|fix|docs|style|refactor|test|chore): .+$ and at most 72          *)
(* characters.                                                             *)
(***************************************************************************)
ValidCommitMessage(m) ==
    /\ Len(m) <= MaxMessageLen
    /\ ~Contains(m, "\n")
    /\ \E i \in 1..Len(ValidTypes) :
          StartsWith(m, ValidTypes[i] \o ": ") /\ Len(m) > Len(ValidTypes[i]) + 2

\* C1: every message generate_commit_message returns, for every diff and every
\* behaviour of the model services, is non-empty, starts with a valid type
\* followed by ": " and at least one character, and has at most 72 characters.
\* (SpecCompose)
C1_ReturnsSchemaValidMessage ==
    pc = "gcm_done" => cm_result # None /\ ValidCommitMessage(cm_result[1])

\* generate_commit_message has returned and no request it made, the two
\* connectivity probes included, was answered
AllUnreachable ==
    /\ pc = "gcm_done"
    /\ ~net_ok
    /\ \E i \in 1..Len(calls) : calls[i] = "GET https://httpbin.org/status/200"

FallbackMessages ==
    { "feat: add Hugging Face integration for auto-commit messages",
      "feat: add AI-powered commit message generation",
      "chore: update dependencies",
      "feat: implement major functionality updates" }
    \cup {t \o tail : t \in {"feat", "fix", "test", "docs", "chore"},
                      tail \in {": add new features and functionality",
                                ": remove deprecated code",
                                ": update and improve codebase"}}

\* C9: generate_fallback_message returns, for every diff and without any request
\* to a service, one message of a fixed finite set, of the form
\* "<valid type>: <text>" and of at most 72 characters. (SpecFallback)
C9_FallbackIsTotalAndValid ==
    pc = "gcm_done" =>
        /\ cm_result # None
        /\ cm_result[1] \in FallbackMessages
        /\ ValidCommitMessage(cm_result[1])
        /\ calls = <<"generate_fallback_message">>
        /\ ~net_ok

C9_Witness ==
    /\ pc = "gcm_done"
    /\ git_diff = "-removed = 1\n-removed = 1\n-fix the Bug"
    /\ cm_result = Some("fix: remove deprecated code")

(***************************************************************************)
(* Properties of authenticate, stated where it returns (pc = "auth_return"):*)
(* trace holds the prompts and the calls of this call, start_cfg the config *)
(* file as it was when the process started.                                *)
(***************************************************************************)
IdentityEvents == {"magiclink.sign_in", "otp.sign_in", "otp.verify_code"}

IdentityPrompts == {"input email", "input choice"}

\* no call to the identity provider and no prompt for an email or a method
NoIdentityCallNoPrompt ==
    \A i \in 1..Len(trace) : trace[i].ev \notin IdentityEvents \cup IdentityPrompts

\* every call to the hosting API was answered
HostingAnswered == \A i \in 1..Len(trace) : trace[i].out # "error"

\* a magic-link token was pasted or a one-time code was verified in this call
IdentityStepRan ==
    \E i \in 1..Len(trace) :
       \/ trace[i].ev = "input session token" /\ trace[i].arg # ""
       \/ trace[i].ev = "otp.verify_code" /\ trace[i].out = "ok"

PersistedAccepted ==
    /\ Has(start_cfg, "github_token")
    /\ start_cfg["github_token"] \in accepted

\* C3 as stated: whenever the persisted record holds a hosting token the
\* hosting API accepts, authenticate(force=False) returns success with no
\* identity-provider call and no prompt for an email or a method. (Spec)
C3_AcceptedTokenFastPath ==
    (pc = "auth_return" /\ ~force /\ PersistedAccepted /\ HostingAnswered)
        => auth_result /\ NoIdentityCallNoPrompt

\* C3 amended: whenever the identity-provider client is initialised and the
\* persisted record holds a hosting token the hosting API accepts,
\* authenticate(force=False) returns success, and all it does is the one
\* validation call of the persisted token. (Spec)
C3_AcceptedTokenFastPathWithClient ==
    (pc = "auth_return" /\ ~force /\ PersistedAccepted /\ HostingAnswered
       /\ descope_client)
        => /\ auth_result
           /\ NoIdentityCallNoPrompt
           /\ trace = <<Ev("get_user", start_cfg["github_token"], "ok")>>

C3_Witness ==
    /\ pc = "auth_return"
    /\ ~force
    /\ PersistedAccepted
    /\ descope_client
    /\ auth_result
    /\ trace = <<Ev("get_user", start_cfg["github_token"], "ok")>>
    /\ cmd.name = "commit"

\* the persisted token was rejected and the token typed then was accepted
RejectedThenFresh(typed) ==
    /\ pc = "auth_return"
    /\ Has(start_cfg, "github_token")
    /\ Len(trace) >= 3
    /\ \E i \in 1..(Len(trace) - 2) :
          trace[i] = Ev("get_user", start_cfg["github_token"], "GithubException")
    /\ trace[Len(trace) - 1] = Ev("getpass github token", typed, "")
    /\ trace[Len(trace)] = Ev("get_user", typed, "ok")

IdentityFields == {"descope_session_token", "user_email"}

\* C4: when the persisted hosting token is rejected and the user then types a
\* token the API accepts, authenticate returns success, the persisted hosting
\* token and username are the typed token and its login, and, unless an
\* identity step ran in this call, the persisted identity fields are those of
\* before the call. (Spec)
C4_RejectedTokenReplaced ==
    \A typed \in ManualTokens :
       RejectedThenFresh(typed) =>
          /\ auth_result
          /\ Get(persisted, "github_token") = typed
          /\ Get(persisted, "github_username") = LoginOf(typed)
          /\ typed # start_cfg["github_token"]
          /\ ~IdentityStepRan =>
                \A f \in IdentityFields :
                   /\ Has(persisted, f) = Has(start_cfg, f)
                   /\ Get(persisted, f) = Get(start_cfg, f)

C4_Witness ==
    /\ RejectedThenFresh("ghp_B")
    /\ Get(start_cfg, "github_token") = "ghp_A"
    /\ ~IdentityStepRan
    /\ Get(persisted, "github_token") = "ghp_B"
    /\ Get(persisted, "descope_session_token") = SessionToken(1)
    /\ run = 2

\* C5: when the response holds both a custom attribute github_token and an
\* access token in the federated OAuth entry named github,
\* extract_github_token_from_session returns the custom attribute's value.
\* (SpecExtract)
C5_CustomAttributeWins ==
    (pc = "extracted" /\ session.user
       /\ session.custom_github_token \notin {Absent, ""}
       /\ session.user_oauth_github \notin {Absent, ""})
        => github_token = Some(session.custom_github_token)

RepositoryOps ==
    {"get_or_create_repo", "init_local_repo", "get_git_diff", "commit_and_push",
     "show_issues"}

\* C6: for init, commit and issue, when authenticate returns failure the
\* process exits with a non-zero code and executes no repository or git
\* operation; every such operation comes after a successful authenticate of
\* the same invocation. (Spec)
C6_OperationsGatedByAuthenticate ==
    /\ (\E i \in 1..Len(ops) : ops[i].op \in RepositoryOps) => auth_result
    /\ (pc \in {"init", "init_local_repo", "commit", "generate_commit_message",
                "confirm", "commit_and_push", "issue"}) => auth_result
    /\ (pc = "exited" /\ cmd.name \in {"init", "commit", "issue"} /\ ~auth_result)
          => exit_code # 0 /\ ops = << >>

C6_Witness ==
    /\ pc = "exited"
    /\ cmd.name = "issue"
    /\ ~auth_result
    /\ descope_client
    /\ exit_code = 1
    /\ ops = << >>

\* C7: the exit code is 1 whenever the subcommand's operation fails, and 0
\* only when it succeeds. (Spec)
C7_ExitCodeTellsFailure ==
    (pc = "exited" /\ \E i \in 1..Len(ops) : ~ops[i].ok) => exit_code = 1

\* C8: when descope_client is null, authenticate returns failure without a
\* prompt, without a call to the hosting API or the identity provider, and
\* with the in-memory and the persisted config as they were. (Spec)
C8_NoClientCleanFailure ==
    (pc = "auth_return" /\ ~descope_client)
        => /\ ~auth_result
           /\ trace = << >>
           /\ github = ""
           /\ config = start_cfg
           /\ persisted = start_cfg

C8_Witness ==
    /\ pc = "auth_return"
    /\ ~descope_client
    /\ PersistedAccepted
    /\ force
    /\ ~auth_result

\* C10: whenever authenticate returns success after an identity step of this
\* call, the persisted record holds this call's identity email and session
\* token together with the hosting token and username in use. (Spec)
C10_IdentityPersistedWithHosting ==
    (pc = "auth_return" /\ auth_result /\ IdentityStepRan)
        => /\ Get(persisted, "descope_session_token") = SessionToken(run)
           /\ Get(persisted, "user_email") = email
           /\ Get(persisted, "github_token") = github
           /\ Get(persisted, "github_username") = LoginOf(github)

\* a collaborator call of this authenticate call raised
CollaboratorRaised ==
    \E i \in 1..Len(trace) : trace[i].out \in {"error", "raise", "GithubException"}

\* C11: no error of a collaborator call escapes authenticate or
\* generate_commit_message: authenticate returns a boolean and
\* generate_commit_message returns a message whatever calls fail. (SpecBoth)
C11_NoErrorEscapes ==
    /\ pc # "uncaught"
    /\ pc = "auth_return" => auth_result \in BOOLEAN
    /\ pc = "gcm_done" => Truthy(cm_result)
    /\ pc = "confirm" => Truthy(cm_result)

C11_Witness ==
    /\ pc = "auth_return"
    /\ caller = "flow"
    /\ Len(trace) >= 2
    /\ trace[Len(trace)] = Ev("get_user", "ghp_A", "error")
    /\ trace[Len(trace) - 1] = Ev("getpass github token", "ghp_A", "")
    /\ \E i \in 1..Len(trace) : trace[i].ev = "get_user" /\ trace[i].out = "GithubException"
    /\ ~auth_result

\* the diff of the end-to-end example
ExampleDiff == "+import requests\n+def send():\n    pass"

MarkedLines(diff, mark, header) ==
    LET lines == Split(diff)
    IN  Cardinality({i \in 1..Len(lines) :
                        StartsWith(lines[i], mark) /\ ~StartsWith(lines[i], header)})

\* one of the literal overrides of generate_fallback_message applies
LiteralOverride(diff) ==
    \/ Contains(Lower(diff), "huggingface")
    \/ Contains(Lower(diff), "hf")
    \/ Contains(Lower(diff), "openai")
    \/ Contains(Lower(diff), "requirements")
    \/ Contains(diff, "main.py") /\ MarkedLines(diff, "+", "+++") > 50

MessageTypes == {"feat", "fix", "test", "docs", "chore"}

\* C13: when no literal override applies, generate_fallback_message chooses
\* the message from the counts of added and removed lines: added > 2*removed
\* gives '<type>: add new features and functionality', otherwise
\* removed > 2*added gives '<type>: remove deprecated code', otherwise
\* '<type>: update and improve codebase'. (SpecFallback)
C13_MessageFromLineCounts ==
    (pc = "gcm_done" /\ ~LiteralOverride(git_diff)) =>
        LET added   == MarkedLines(git_diff, "+", "+++")
            removed == MarkedLines(git_diff, "-", "---")
            tail    == IF added > 2 * removed THEN ": add new features and functionality"
                       ELSE IF removed > 2 * added THEN ": remove deprecated code"
                       ELSE ": update and improve codebase"
        IN  \E type \in MessageTypes : cm_result = Some(type \o tail)

C13_Witness ==
    /\ pc = "gcm_done"
    /\ git_diff = "-removed = 1\n-removed = 1\n-removed = 1"
    /\ ~LiteralOverride(git_diff)
    /\ MarkedLines(git_diff, "-", "---") = 3
    /\ cm_result = Some("chore: remove deprecated code")

\* the diff has an added line with a function or class definition
AddsDefinition(diff) ==
    LET lines == Split(diff)
    IN  \E i \in 1..Len(lines) :
           /\ StartsWith(lines[i], "+")
           /\ Contains(lines[i], "def ") \/ Contains(lines[i], "class ")

\* C14: for every diff with an added line that holds a function or class
\* definition, generate_fallback_message classifies the change as 'feat', and
\* the message says so whenever no literal override applies. (SpecFallback)
C14_AddedDefinitionIsFeat ==
    (pc = "gcm_done" /\ AddsDefinition(git_diff)) =>
        /\ CommitType(git_diff) = "feat"
        /\ ~LiteralOverride(git_diff) => StartsWith(cm_result[1], "feat: ")

C14_Witness ==
    /\ pc = "gcm_done"
    /\ git_diff = "+def foo():"
    /\ AddsDefinition(git_diff)
    /\ cm_result = Some("feat: add new features and functionality")

\* C15: the commit subcommand pushes to the branch given by --branch: after a
\* successful commit the push went to origin/<branch argument>. (Spec)
C15_PushesToBranchArgument ==
    (pc = "exited" /\ cmd.name = "commit" /\ exit_code = 0 /\ pushed # "")
        => pushed = cmd.branch

\* place of a request or prompt in the order of the strategies: 0 the
\* preparation, 1 the hosted inference API, 2 the local model service, 3 the
\* OpenAI API, 4 the pattern heuristic, 5 the deterministic fallback
Rank(call) ==
    IF StartsWith(call, "POST huggingface ") THEN 1
    ELSE IF StartsWith(call, "GET ollama ") \/ StartsWith(call, "POST ollama ") THEN 2
    ELSE IF call \in {"getpass OpenAI key", "POST openai chat.completions"} THEN 3
    ELSE IF call = "try_simple_text_generation" THEN 4
    ELSE IF call = "generate_fallback_message" THEN 5
    ELSE 0

Tried(rank) == \E i \in 1..Len(calls) : Rank(calls[i]) = rank

LastHostedCall == Len(calls) > 0 /\ Rank(calls[Len(calls)]) = 1

\* the hosted model requested last answered that it is loading
ModelLoading == LastHostedCall /\ Answered(reply) /\ reply.status = 503

\* number of requests made so far that equal the last one
TimesRequested == Cardinality({i \in 1..Len(calls) : calls[i] = calls[Len(calls)]})

\* C17: when a hosted model answers its first request with 503 (model
\* loading), the next request of the cascade goes to the same model once
\* more; no model is requested more than twice. (SpecCompose)
C17_LoadingModelRetried ==
    [][/\ (ModelLoading /\ TimesRequested = 1 /\ calls' # calls)
            => calls'[Len(calls) + 1] = calls[Len(calls)]
       /\ LastHostedCall => TimesRequested <= 2]_vars

\* the requests made to the hosted models, in the order made
HostedCalls == SelectSeq(calls, LAMBDA c : Rank(c) = 1)

\* an authorization failure, a rate limit or a timeout
ModelRefused ==
    \/ Answered(reply) /\ reply.status \in {401, 429}
    \/ reply.kind = "timeout"

\* C18: in try_huggingface_serverless a 401, a 429 or a timeout for one model
\* never ends the strategy: the models are requested in the order of the
\* list, a usable reply is returned at once, and the strategy gives up only
\* after every model was requested. (SpecCompose)
C18_NextModelAfterRefusal ==
    /\ \A k \in 1..Len(HostedCalls) :
          k <= Len(Models) /\ HostedCalls[k] = "POST huggingface " \o Models[k]
    /\ (LastHostedCall /\ ModelRefused /\ Len(HostedCalls) < Len(Models))
          => pc = "serverless" /\ model_i = Len(HostedCalls) + 1
    /\ (LastHostedCall /\ pc = "gcm_done")
          => /\ Answered(reply) /\ reply.status = 200
             /\ cm_result = extract_commit_message(reply.text, SimplePrompt(Prompt(git_diff)))
    /\ (LastHostedCall /\ pc = "serverless") => cm_result = None
    /\ (hf_token # "" /\ \E r \in 2..5 : Tried(r)) => Len(HostedCalls) = Len(Models)

C18_Witness ==
    /\ LastHostedCall /\ ModelRefused
    /\ HostedCalls = <<"POST huggingface microsoft/DialoGPT-small", "POST huggingface gpt2">>
    /\ pc = "serverless"
    /\ model_i = 3

\* the strategy attempted last, by the rank of the last request or prompt
LastRank == IF calls = << >> THEN 0 ELSE Rank(calls[Len(calls)])

\* the request made last raised an exception
LastRaised == reply.kind \in {"timeout", "error"}

\* C19: a strategy that returns no message or raises never aborts the
\* cascade: the strategy next in order is attempted, and
\* generate_commit_message ends with a message. (SpecCompose)
C19_FailedStrategyGoesOn ==
    /\ pc = "gcm_done" => Truthy(cm_result)
    /\ (pc # "gcm_done" /\ LastRank = 1 /\ Len(HostedCalls) = Len(Models)) => pc = "ollama"
    /\ (pc # "gcm_done" /\ LastRank = 2) => pc = "openai"
    /\ (pc # "gcm_done" /\ LastRank = 3) => pc = "simple"
    /\ (LastRank \in {1, 2, 3} /\ LastRaised) => pc \in {"serverless", "ollama", "openai", "simple"}
    /\ (pc = "gcm_done" /\ LastRank = 4) => Tried(2) /\ Tried(3)

C19_Witness ==
    /\ pc = "simple"
    /\ LastRank = 3
    /\ LastRaised
    /\ calls[Len(calls)] = "POST openai chat.completions"
    /\ \E i \in 1..Len(calls) : calls[i] = "POST ollama /api/generate llama3.2:1b"
    /\ Len(HostedCalls) = Len(Models)

\* authenticate(force=False) took the fast path and the hosting API rejected
\* the persisted token
FastPathRejected ==
    /\ pc = "auth_return"
    /\ ~force
    /\ descope_client
    /\ Has(start_cfg, "descope_session_token") /\ Has(start_cfg, "user_email")
    /\ Has(start_cfg, "github_token")
    /\ Len(trace) >= 1
    /\ trace[1] = Ev("get_user", start_cfg["github_token"], "GithubException")

\* position in trace of the first accepted hosting token, 0 when there is none
FirstAccepted ==
    LET hits == {i \in 1..Len(trace) : trace[i].ev = "get_user" /\ trace[i].out = "ok"}
    IN  IF hits = {} THEN 0 ELSE CHOOSE i \in hits : \A j \in hits : i <= j

\* C20 as stated: when authenticate(force=False) finds a persisted hosting
\* token the API rejects, the identity step (email, method, identity-provider
\* request) is performed before any new hosting token is accepted. (Spec)
C20_RejectionReauthenticates ==
    (FastPathRejected /\ FirstAccepted > 0) =>
        \E i \in 1..(FirstAccepted - 1) : trace[i].ev \in IdentityEvents

\* C20 amended: when authenticate(force=False) finds a persisted hosting token
\* the API rejects, it asks for a new hosting token at once; when the API
\* accepts the typed token, authenticate returns success with no identity
\* step. (Spec)
C20_RejectionAsksForToken ==
    FastPathRejected =>
        /\ Len(trace) >= 2
        /\ trace[2].ev = "getpass github token"
        /\ (Len(trace) >= 3 /\ trace[3].out = "ok") =>
              /\ Len(trace) = 3
              /\ auth_result
              /\ NoIdentityCallNoPrompt
              /\ Get(persisted, "descope_session_token") = start_cfg["descope_session_token"]

C20_Witness ==
    /\ FastPathRejected
    /\ FirstAccepted = 3
    /\ trace[3] = Ev("get_user", "ghp_B", "ok")
    /\ auth_result
    /\ cmd.name = "init"

\* the events of the call at which the user is asked for a hosting token
ManualPrompts == {i \in 1..Len(trace) : trace[i].ev = "getpass github token"}

\* trace[i] is the rejection, by the hosting API, of the token found in the
\* identity provider's response
EmbeddedRejectedAt(i) ==
    /\ Truthy(github_token)
    /\ i >= 2 /\ i <= Len(trace)
    /\ trace[i - 1].ev = "otp.verify_code"
    /\ trace[i] = Ev("get_user", github_token[1], "GithubException")

Signals(diff) ==
    LET lowered == Lower(diff)
        lines   == Split(lowered)
        Some_(P(_)) == \E i \in 1..Len(lines) : P(lines[i])
        AddedDef(l)    == StartsWith(l, "+") /\ (Contains(l, "def ") \/ Contains(l, "class "))
        AddedImport(l) == StartsWith(l, "+") /\ Contains(l, "import")
        Fix(l)         == Contains(l, "fix") \/ Contains(l, "bug")
        Test(l)        == Contains(l, "test")
    IN  (IF Some_(AddedDef) \/ Some_(AddedImport) THEN {"feat"} ELSE {})
        \cup (IF Some_(Fix) THEN {"fix"} ELSE {})
        \cup (IF Some_(Test) THEN {"test"} ELSE {})
        \cup (IF Contains(diff, ".md") \/ Contains(lowered, "readme") THEN {"docs"} ELSE {})
        \cup (IF Contains(lowered, "requirements") \/ Contains(lowered, "package")
              THEN {"chore"} ELSE {})

\* the highest of the signals in the order feat > fix > test > docs > chore
TopSignal(diff) ==
    LET found == Signals(diff)
        order == <<"feat", "fix", "test", "docs", "chore">>
    IN  IF found = {} THEN "chore"
        ELSE order[CHOOSE i \in 1..5 : order[i] \in found /\ \A j \in 1..(i - 1) : order[j] \notin found]

\* C22: the type generate_fallback_message chooses is the highest signal of
\* the diff in the order feat > fix > test > docs > chore, 'chore' without a
\* signal, also when two signals share a line. (SpecFallback)
C22_HighestSignalWins ==
    (pc = "gcm_done" /\ ~LiteralOverride(git_diff))
        => StartsWith(cm_result[1], TopSignal(git_diff) \o ": ")

\* C23: the literal overrides of generate_fallback_message come before the
\* classified type and the comparison of the counts, in the order hosted-model
\* keyword, dependency manifest, entry-point file with more than 50 added
\* lines; the first that applies gives the message. (SpecFallback)
C23_OverridesInOrder ==
    pc = "gcm_done" =>
        LET lowered == Lower(git_diff)
            message_ == cm_result[1]
        IN  IF Contains(lowered, "huggingface") \/ Contains(lowered, "hf")
            THEN message_ = "feat: add Hugging Face integration for auto-commit messages"
            ELSE IF Contains(lowered, "openai")
            THEN message_ = "feat: add AI-powered commit message generation"
            ELSE IF Contains(lowered, "requirements")
            THEN message_ = "chore: update dependencies"
            ELSE IF Contains(git_diff, "main.py") /\ MarkedLines(git_diff, "+", "+++") > 50
            THEN message_ = "feat: implement major functionality updates"
            ELSE \E type \in MessageTypes :
                    message_ \in {type \o ": add new features and functionality",
                                  type \o ": remove deprecated code",
                                  type \o ": update and improve codebase"}

C23_Witness ==
    /\ pc = "gcm_done"
    /\ git_diff = "+++ b/requirements.txt\n+huggingface_hub==1.0"
    /\ Contains(Lower(git_diff), "requirements")
    /\ CommitType(git_diff) = "chore"
    /\ cm_result = Some("feat: add Hugging Face integration for auto-commit messages")

\* the stripped non-empty lines of the text extract_commit_message looks at
TextLinesOf(generated_text, diff) ==
    LET lines == Split(Strip(Remove(generated_text, Take(diff, SimplePromptLen))))
    IN  SelectSeq([i \in 1..Len(lines) |-> Strip(lines[i])], LAMBDA l : l # "")

\* the line starts with a valid type followed by ': ' and has at most 72 characters
TypedLine(line) ==
    /\ \E i \in 1..Len(ValidTypes) : StartsWith(line, ValidTypes[i] \o ": ")
    /\ Len(line) <= MaxMessageLen

\* C24: when a line of the model output starts with a valid type followed by
\* ': ' and has at most 72 characters, extract_commit_message returns the
\* first such line, even when an earlier line contains a colon. (SpecMessage)
C24_TypedLinePreferred ==
    pc = "message_extracted" =>
        LET lines == TextLinesOf(reply.text, git_diff)
            typed == {i \in 1..Len(lines) : TypedLine(lines[i])}
        IN  typed # {} =>
                cm_result = Some(lines[CHOOSE i \in typed : \A j \in typed : i <= j])

\* the line is one the second loop of extract_commit_message stops at
MeaningfulLine(line) ==
    Len(line) > 10 /\ Len(line) < 100 /\ ~StartsWith(line, "Generate")

\* C25: when no line of the text is typed or an acceptable colon line and some
\* line has a length strictly between 10 and 100 and does not begin with
\* 'Generate', extract_commit_message returns 'feat: ' followed by the first
\* such line lower-cased, cut to 72 characters. (SpecMessage)
C25_MeaningfulLineBecomesFeat ==
    pc = "message_extracted" =>
        LET lines == TextLinesOf(reply.text, git_diff)
            plain == \A i \in 1..Len(lines) :
                        /\ ~StartsWithTypeColon(lines[i])
                        /\ ~(/\ Contains(lines[i], ":") /\ Len(lines[i]) < 80
                             /\ ~StartsWith(lines[i], "http"))
            meaningful == {i \in 1..Len(lines) : MeaningfulLine(lines[i])}
        IN  (plain /\ meaningful # {}) =>
                cm_result = Some(Take("feat: " \o Lower(lines[CHOOSE i \in meaningful :
                                                   \A j \in meaningful : i <= j]),
                                      MaxMessageLen))

\* the record holds no hosting credential, or a token together with the login
\* the hosting API returns for it
HostingPair(cfg) ==
    IF Has(cfg, "github_token") \/ Has(cfg, "github_username")
    THEN /\ Has(cfg, "github_token") /\ Has(cfg, "github_username")
         /\ cfg["github_username"] = LoginOf(cfg["github_token"])
    ELSE TRUE

\* C26: in every reachable state the hosting token and username of the
\* persisted record were written together from one successful who-am-I call:
\* the username is the login the hosting API returns for the token. (Spec)
C26_TokenAndUsernameTogether == HostingPair(persisted)

\* the events of the call at which setup_github_connection validates the token
\* it finds in the record (784-785): the who-am-I calls that follow neither a
\* typed token nor the verification that delivered an embedded token
StoredChecks ==
    {i \in 1..Len(trace) :
        /\ trace[i].ev = "get_user"
        /\ i > 1 => /\ ~(trace[i - 1].ev = "getpass github token")
                    /\ ~(trace[i - 1].ev = "otp.verify_code" /\ Truthy(github_token))}

\* the events of the call at which the identity step is started
IdentityStarts ==
    {i \in 1..Len(trace) : trace[i].ev \in {"magiclink.sign_in", "otp.sign_in"}}

\* a typed token the hosting API rejects is the last event of a failed call
RejectedManualEndsCall ==
    \A i \in ManualPrompts :
        (i < Len(trace) /\ trace[i + 1].out = "GithubException")
            => /\ i + 1 = Len(trace)
               /\ pc = "auth_return" /\ ~auth_result

\* the event at which the call asks for the method, 0 when it has not
MethodChoice ==
    LET hits == {i \in 1..Len(trace) : trace[i].ev = "input choice"}
    IN  IF hits = {} THEN 0 ELSE CHOOSE i \in hits : \A j \in hits : i <= j

\* C27 as stated: within one authenticate call the user is asked for a hosting
\* token at most once, the stored hosting token is validated at most once and
\* the identity step is started at most once; a rejected typed token ends the
\* call in failure. (Spec)
C27_NothingRetried ==
    /\ Cardinality(ManualPrompts) <= 1
    /\ Cardinality(StoredChecks) <= 1
    /\ Cardinality(IdentityStarts) <= 1
    /\ RejectedManualEndsCall

\* C27 amended: the identity step is started at most once and a rejected typed
\* token ends the call in failure; the prompt for a hosting token and the
\* validation of the stored token each happen at most once on the fast path
\* and at most once after the method was chosen, the second time only when the
\* fast path ended with a hosting call that raised another error than a
\* rejection; no call has more than 12 prompts and collaborator calls. (Spec)
C27_RetriedOnlyAfterFastPathError ==
    /\ Cardinality(IdentityStarts) <= 1
    /\ RejectedManualEndsCall
    /\ \A hits \in {ManualPrompts, StoredChecks} :
          /\ Cardinality({i \in hits : i < MethodChoice}) <= 1
          /\ Cardinality({i \in hits : i > MethodChoice}) <= 1
          /\ Cardinality(hits) = 2 =>
                \E i \in 1..Len(trace) :
                   /\ trace[i].ev = "get_user" /\ trace[i].out = "error"
                   /\ trace[i + 1].ev \in IdentityPrompts
    /\ Len(trace) <= 12

C27_Witness ==
    /\ pc = "auth_return"
    /\ auth_result
    /\ Cardinality(ManualPrompts) = 2
    /\ Cardinality(StoredChecks) = 2
    /\ Cardinality(IdentityStarts) = 1

\* the events of the call that prompt for a hosting token or validate one
HostingEvents ==
    {i \in 1..Len(trace) : trace[i].ev \in {"getpass github token", "get_user"}}

\* the events of the call that complete the identity step: a non-empty
\* magic-link token pasted, or a one-time code verified with a session token in
\* the response
IdentityCompletions ==
    {i \in 1..Len(trace) :
        \/ trace[i].ev = "input session token" /\ trace[i].arg # ""
        \/ /\ trace[i].ev = "otp.verify_code" /\ trace[i].out = "ok"
           /\ session.session_jwt # ""}

\* C28 as stated: on every authenticate call that does not end on the fast
\* path, no hosting token is prompted for, extracted or validated before the
\* identity step has completed, and a failed or empty identity step ends in
\* failure without any hosting-API call. (Spec)
C28_HostingOnlyAfterIdentity ==
    (pc = "auth_return" /\ ~NoIdentityCallNoPrompt) =>
        /\ \A i \in HostingEvents : \E j \in IdentityCompletions : j < i
        /\ Truthy(github_token) => IdentityCompletions # {}
        /\ IdentityCompletions = {} => ~auth_result /\ HostingEvents = {}
        /\ auth_result => trace[Len(trace)].ev = "get_user" /\ trace[Len(trace)].out = "ok"

\* C28 amended: once authenticate has asked for the method, no hosting token
\* is prompted for, extracted or validated before the identity step has
\* completed, and a failed or empty identity step ends in failure with no
\* hosting-API call after the choice of the method; hosting events come before
\* that choice only on a fast path that ended with a hosting call raising
\* another error than a rejection. (Spec)
C28_HostingAfterIdentityOnceChosen ==
    /\ \A i \in HostingEvents :
          IF i > MethodChoice
          THEN MethodChoice > 0 => \E j \in IdentityCompletions : MethodChoice < j /\ j < i
          ELSE \E k \in HostingEvents :
                  /\ k < MethodChoice
                  /\ trace[k].ev = "get_user" /\ trace[k].out = "error"
                  /\ trace[k + 1].ev \in IdentityPrompts
                  /\ i <= k
    /\ Truthy(github_token) => IdentityCompletions # {}
    /\ (pc = "auth_return" /\ MethodChoice > 0) =>
          /\ IdentityCompletions = {} =>
                ~auth_result /\ \A i \in HostingEvents : i < MethodChoice
          /\ auth_result =>
                trace[Len(trace)].ev = "get_user" /\ trace[Len(trace)].out = "ok"

C28_Witness ==
    /\ pc = "auth_return"
    /\ auth_result
    /\ trace[1].ev = "get_user" /\ trace[1].out = "error"
    /\ MethodChoice > 1
    /\ \E j \in IdentityCompletions : \E i \in HostingEvents : j < i

\* C29: every message generate_commit_message returns, whichever strategy
\* produced it, is non-empty and at most 72 characters long. (SpecCompose)
C29_MessageWithinLength ==
    pc = "gcm_done" =>
        /\ cm_result # None
        /\ Len(cm_result[1]) >= 1
        /\ Len(cm_result[1]) <= MaxMessageLen

C29_Witness ==
    /\ pc = "gcm_done"
    /\ Rank(calls[Len(calls)]) = 3
    /\ Len(reply.text) > MaxMessageLen
    /\ cm_result = Some(Take(reply.text, MaxMessageLen))

\* C30: whenever authenticate returns failure, with or without force, the
\* persisted record is exactly what it was before the call. (Spec)
C30_FailureLeavesRecord ==
    (pc = "auth_return" /\ ~auth_result) => persisted = start_cfg

C30_Witness ==
    /\ pc = "auth_return"
    /\ ~auth_result
    /\ force
    /\ Has(start_cfg, "github_token")
    /\ persisted = start_cfg
    /\ Get(config, "descope_session_token") # Get(persisted, "descope_session_token")
    /\ \E i \in ManualPrompts :
          i < Len(trace) /\ trace[i].arg # "" /\ trace[i + 1].out = "GithubException"

\* the non-empty tokens held by the places of the response that
\* extract_github_token_from_session inspects
TokensInResponse(full_response) ==
    ((IF full_response.user
      THEN {full_response.custom_github_token, full_response.custom_oauth_github,
            full_response.user_oauth_github}
      ELSE {}) \cup {full_response.oauth_tokens_github}) \ {Absent, ""}

\* C31: extract_github_token_from_session returns no token only if none of
\* the inspected places holds a non-empty token; an empty custom attribute
\* github_token does not hide a token held by a later place. (SpecExtract)
C31_NoTokenOnlyIfNoneHeld ==
    (pc = "extracted" /\ github_token = None) => TokensInResponse(session) = {}

\* C32: authenticate returns success only after a who-am-I call against the
\* hosting API succeeded in the same call, and self.github is then bound to the
\* token that call validated; the persisted record alone never gives success.
\* (Spec)
C32_SuccessAfterWhoAmI ==
    (pc = "auth_return" /\ auth_result) =>
        /\ Len(trace) >= 1
        /\ trace[Len(trace)] = Ev("get_user", github, "ok")
        /\ github \in accepted

C32_Witness ==
    /\ pc = "auth_return"
    /\ auth_result
    /\ Has(start_cfg, "github_token")
    /\ trace = <<Ev("get_user", start_cfg["github_token"], "ok")>>
    /\ github = start_cfg["github_token"]
    /\ persisted = start_cfg

\* C33: try_simple_text_generation always returns a message, so
\* generate_commit_message executes generate_fallback_message only when the
\* connectivity probe reported no connectivity, before any strategy was tried;
\* when the strategy loop runs to its end the message is the pattern
\* heuristic's and the fallback is not executed. (SpecCompose)
C33_FallbackOnlyWithoutConnectivity ==
    /\ Truthy(try_simple_text_generation(Prompt(git_diff)))
    /\ Tried(5) =>
          /\ \A rank \in 1..4 : ~Tried(rank)
          /\ reply.kind = "response" /\ reply.status # 200
          /\ calls[Len(calls) - 1] \in {"GET https://www.google.com",
                                        "GET https://httpbin.org/status/200"}
    /\ (pc = "gcm_done" /\ Tried(4)) =>
          /\ ~Tried(5)
          /\ cm_result = try_simple_text_generation(Prompt(git_diff))

C33_Witness ==
    /\ pc = "gcm_done"
    /\ \A rank \in 1..4 : Tried(rank)
    /\ ~Tried(5)
    /\ cm_result = Some("chore: update code")

====
